---- MODULE Spec2Model ----
(***************************************************************************)
(* Batch orchestration engine of lazyproarcconvert (src/main.rs,           *)
(* src/manifest.rs): discovery of batches, the job state machine and its   *)
(* reconciliation against the output tree, the per-batch pipeline driven   *)
(* by run_job / process_batch, and the audit files written after a run.    *)
(*                                                                         *)
(* Paths are sequences of components.  An output file is the record        *)
(* [dir, index, suffix]: the directory it lives in, the zero-padded index  *)
(* string and one of the four fixed suffixes.  External tools and the      *)
(* filesystem are the environment: a tool invocation exits with success    *)
(* or failure, and a file written by a tool is either visible at once or   *)
(* becomes visible later.                                                  *)
(***************************************************************************)
EXTENDS Integers, Sequences, FiniteSets, TLC

\* ---------------------------------------------------------------- bounds
MaxPages == 2      \* most page images in one directory
MaxEvents == 3     \* most key events, failing tool invocations and other
                   \* environment faults, taken together, in one behaviour

\* ------------------------------------------------------ program constants
DefaultStartIndex == 1
digits == 4
max_attempts == 5

InputRoot == <<"in">>
SubDir == <<"in", "a">>
BatchDirs == {InputRoot, SubDir}
OutRoot1 == <<"out">>
OutRoot2 == <<"out2">>
OutRoots == {OutRoot1, OutRoot2}

AC == "ac.jp2"
UC == "uc.jp2"
TXT == "ocr.txt"
ALTO == "ocr.xml"
Suffixes == {AC, UC, TXT, ALTO}

VARIABLES
    tree,        \* input tree: directory -> number of page images in it
    files,       \* output files that exist (are visible)
    late,        \* output files written by a tool but not yet visible
    outdirs,     \* output directories that exist
    audit,       \* audit directory -> its manifest, ledger, previews, report
    start_index, \* App.args.start_index
    jobs,        \* App.jobs
    selected,    \* App.selected (1-based)
    do_master, do_user, do_txt, do_alto,   \* App.do_*
    output_root, \* App.output_root
    log_lines,   \* lines pushed to App.log_lines by the current key handler
    pc,          \* position inside run_job / process_all_pending
    cur,         \* job_index of the running run_job, 0 when none
    sweep,       \* loop variable i of process_all_pending, 0 when none
    tiffs,       \* process_batch: number of pages listed for this run
    pos,         \* process_batch: position of the page being visited
    stage,       \* process_batch: next stage of that page
    first_error, \* process_batch: first_error
    res,         \* run_job: result of process_batch
    attempt,     \* wait_for_jp2_files: attempt
    manifest,    \* run_job: manifest returned by build_manifest_for_batch
    local_logs,  \* run_job: local_logs
    keys,        \* number of key events handled so far
    fails,       \* number of failed tool invocations so far
    faults       \* number of other environment faults so far

\* compute_blake3 at work on two files, each in a call of its own
VARIABLES
    content,     \* file -> the bytes of the file
    offset,      \* file -> how many of its bytes file.read has delivered
    hasher,      \* file -> the state of the blake3::Hasher of the call
    chunks,      \* file -> the sizes file.read has returned, in order
    digest       \* file -> the string compute_blake3 has returned, or None

hashvars == <<content, offset, hasher, chunks, digest>>

vars == <<tree, files, late, outdirs, audit, start_index, jobs, selected,
          do_master, do_user, do_txt, do_alto, output_root, log_lines,
          pc, cur, sweep, tiffs, pos, stage, first_error, res, attempt,
          manifest, local_logs, keys, fails, faults>>

fsvars == <<tree, files, late, outdirs, audit>>

\* what a behaviour has used of MaxEvents
Spent == keys + fails + faults

cfgvars == <<do_master, do_user, do_txt, do_alto, output_root>>
runvars == <<cur, tiffs, pos, stage, first_error, res, attempt, manifest,
             local_logs>>

\* ------------------------------------------------------------- JobStatus
Pending == [tag |-> "Pending"]
Processing == [tag |-> "Processing"]
Done == [tag |-> "Done"]
AlreadyDone == [tag |-> "AlreadyDone"]
Failed(reason) == [tag |-> "Failed", reason |-> reason]

BatchJob(dir, index, count, status) ==
    [dir |-> dir, index_start |-> index, file_count |-> count,
     status |-> status]

None == <<>>

\* ------------------------------------------------------------ formatting
RECURSIVE DecDigits(_)
DecDigits(n) ==
    IF n < 10 THEN <<n>> ELSE Append(DecDigits(n \div 10), n % 10)

RECURSIVE ZeroPad(_, _)
ZeroPad(s, width) ==
    IF Len(s) >= width THEN s ELSE ZeroPad(<<0>> \o s, width)

\* format!("{:0digits$}", idx)
index_str(idx, width) == ZeroPad(DecDigits(idx), width)

\* index_start + i as u32.  Every index of this model stays far below 2^32,
\* where the sum is the mathematical one.
AddU32(a, b) == a + b

\* ----------------------------------------------------------------- paths
\* Path::file_name: the last component; the empty path has none
has_file_name(p) == Len(p) > 0
file_name(p) == p[Len(p)]

batch_output_dir(out_root, input_root, batch_dir) ==
    IF batch_dir = input_root
    THEN out_root
    ELSE IF has_file_name(batch_dir)
         THEN Append(out_root, file_name(batch_dir))
         ELSE out_root

OutFile(dir, idx, suffix) ==
    [dir |-> dir, index |-> index_str(idx, digits), suffix |-> suffix]

\* Path::exists for an output file and for a directory
FileExists(f) == f \in files
DirExists(d) == d \in outdirs

\* the directory names that are not valid UTF-8: to_str() gives None
InvalidNames == {"nonutf8-1", "nonutf8-2"}

\* logs_dir of run_job: file_name().and_then(to_str).unwrap_or("root")
logs_dir_of(out_root, dir) ==
    LET batch_name == IF has_file_name(dir) /\ file_name(dir) \notin InvalidNames
                      THEN file_name(dir) ELSE "root"
        safe_batch == IF batch_name = "" THEN "root" ELSE batch_name
    IN  Append(out_root, <<safe_batch, "_logs">>)

\* the artifact kinds switched on by the four flags
Enabled(dm, du, dt, da) ==
    (IF dm THEN {AC} ELSE {}) \cup (IF du THEN {UC} ELSE {})
      \cup (IF dt THEN {TXT} ELSE {}) \cup (IF da THEN {ALTO} ELSE {})

\* --------------------------------------------------------- reconciliation
\* faulty variant: a page counts as complete once any one format is there
check_batch_any_format(batch, out_root, input_root, dm, du, dt, da) ==
    LET batch_out_dir == batch_output_dir(out_root, input_root, batch.dir)
        required_formats == Cardinality(Enabled(dm, du, dt, da))
        file_formats(i) ==
            LET idx == AddU32(batch.index_start, i)
            IN  Cardinality({s \in Enabled(dm, du, dt, da) :
                                FileExists(OutFile(batch_out_dir, idx, s))})
    IN  IF ~DirExists(batch_out_dir) THEN FALSE
        ELSE IF required_formats = 0 THEN TRUE
        ELSE \A i \in 0..(batch.file_count - 1) : ~(file_formats(i) < 1)

\* faulty variant: the loop stops one page short
check_batch_short_loop(batch, out_root, input_root, dm, du, dt, da) ==
    LET batch_out_dir == batch_output_dir(out_root, input_root, batch.dir)
        required_formats == Cardinality(Enabled(dm, du, dt, da))
        file_formats(i) ==
            LET idx == AddU32(batch.index_start, i)
            IN  Cardinality({s \in Enabled(dm, du, dt, da) :
                                FileExists(OutFile(batch_out_dir, idx, s))})
    IN  IF ~DirExists(batch_out_dir) THEN FALSE
        ELSE IF required_formats = 0 THEN TRUE
        ELSE \A i \in 0..(batch.file_count - 2) :
                ~(file_formats(i) < required_formats)

\* faulty variant: with no kind required a batch is never complete
check_batch_none_required(batch, out_root, input_root, dm, du, dt, da) ==
    LET batch_out_dir == batch_output_dir(out_root, input_root, batch.dir)
        required_formats == Cardinality(Enabled(dm, du, dt, da))
        file_formats(i) ==
            LET idx == AddU32(batch.index_start, i)
            IN  Cardinality({s \in Enabled(dm, du, dt, da) :
                                FileExists(OutFile(batch_out_dir, idx, s))})
    IN  IF ~DirExists(batch_out_dir) THEN FALSE
        ELSE IF required_formats = 0 THEN FALSE
        ELSE \A i \in 0..(batch.file_count - 1) :
                ~(file_formats(i) < required_formats)

check_batch_already_done(batch, out_root, input_root, dm, du, dt, da) ==
    LET batch_out_dir == batch_output_dir(out_root, input_root, batch.dir)
        required_formats == Cardinality(Enabled(dm, du, dt, da))
        file_formats(i) ==
            LET idx == AddU32(batch.index_start, i)
            IN  Cardinality({s \in Enabled(dm, du, dt, da) :
                                FileExists(OutFile(batch_out_dir, idx, s))})
    IN  IF ~DirExists(batch_out_dir) THEN FALSE
        ELSE IF required_formats = 0 THEN TRUE
        ELSE \A i \in 0..(batch.file_count - 1) :
                ~(file_formats(i) < required_formats)

\* faulty variant: a complete job becomes AlreadyDone whatever it was
JobAfterReconcile_no_done_guard(job, out_root, input_root, dm, du, dt, da) ==
    IF check_batch_already_done(job, out_root, input_root, dm, du, dt, da)
    THEN [job EXCEPT !.status = AlreadyDone]
    ELSE IF job.status = AlreadyDone
         THEN [job EXCEPT !.status = Pending]
         ELSE job

\* faulty variant: a Failed job whose output is incomplete becomes Pending
JobAfterReconcile_demoting_failed(job, out_root, input_root, dm, du, dt, da) ==
    IF check_batch_already_done(job, out_root, input_root, dm, du, dt, da)
    THEN IF job.status # Done
         THEN [job EXCEPT !.status = AlreadyDone]
         ELSE job
    ELSE IF job.status = AlreadyDone \/ job.status.tag = "Failed"
         THEN [job EXCEPT !.status = Pending]
         ELSE job

JobAfterReconcile(job, out_root, input_root, dm, du, dt, da) ==
    IF check_batch_already_done(job, out_root, input_root, dm, du, dt, da)
    THEN IF job.status # Done
         THEN [job EXCEPT !.status = AlreadyDone]
         ELSE job
    ELSE IF job.status = AlreadyDone
         THEN [job EXCEPT !.status = Pending]
         ELSE job

update_jobs_status_on_start(js, out_root, input_root, dm, du, dt, da) ==
    [i \in DOMAIN js |->
        JobAfterReconcile(js[i], out_root, input_root, dm, du, dt, da)]

\* -------------------------------------------------------------- discovery
\* file_name().and_then(to_str).unwrap_or(""): the sort key of a directory.
\* NameRank orders the names used here as str::cmp orders them; a name that
\* is not valid UTF-8 has the key "" (rank 0).
NameRank(n) ==
    CASE n = "a" -> 1
      [] n = "in" -> 2
      [] OTHER -> 0

SortKey(dir) == IF has_file_name(dir) THEN NameRank(file_name(dir)) ELSE 0

\* slice::sort_by is stable: insertion of x after every element whose key
\* is not greater
RECURSIVE InsertByKey(_, _)
InsertByKey(sorted, x) ==
    IF sorted = <<>> THEN <<x>>
    ELSE IF SortKey(x) < SortKey(Head(sorted))
         THEN <<x>> \o sorted
         ELSE <<Head(sorted)>> \o InsertByKey(Tail(sorted), x)

RECURSIVE sort_by_name(_)
sort_by_name(dirs) ==
    IF dirs = <<>> THEN <<>>
    ELSE InsertByKey(sort_by_name(SubSeq(dirs, 1, Len(dirs) - 1)),
                     dirs[Len(dirs)])

\* has_tiffs_in_dir / collect_tiffs_in_dir on a readable tree
has_tiffs_in_dir(t, dir) == dir \in DOMAIN t /\ t[dir] > 0
collect_tiffs_in_dir(t, dir) == IF dir \in DOMAIN t THEN t[dir] ELSE 0

\* faulty variant: the running counter advances by one per batch
RECURSIVE AssignIndexes_by_one(_, _, _)
AssignIndexes_by_one(t, batch_dirs, next_index) ==
    IF batch_dirs = <<>> THEN <<>>
    ELSE LET dir == Head(batch_dirs)
             count == collect_tiffs_in_dir(t, dir)
         IN  IF count = 0
             THEN AssignIndexes_by_one(t, Tail(batch_dirs), next_index)
             ELSE <<BatchJob(dir, next_index, count, Pending)>>
                  \o AssignIndexes_by_one(t, Tail(batch_dirs),
                                          AddU32(next_index, 1))

RECURSIVE AssignIndexes(_, _, _)
AssignIndexes(t, batch_dirs, next_index) ==
    IF batch_dirs = <<>> THEN <<>>
    ELSE LET dir == Head(batch_dirs)
             count == collect_tiffs_in_dir(t, dir)
         IN  IF count = 0
             THEN AssignIndexes(t, Tail(batch_dirs), next_index)
             ELSE <<BatchJob(dir, next_index, count, Pending)>>
                  \o AssignIndexes(t, Tail(batch_dirs),
                                   AddU32(next_index, count))

\* listing: the subdirectories of input_root in the order read_dir yields
init_jobs_from_dirs(t, input_root, listing, start) ==
    LET root_part == IF has_tiffs_in_dir(t, input_root)
                     THEN <<input_root>> ELSE <<>>
        HasTiffs(d) == has_tiffs_in_dir(t, d)
        batch_dirs == root_part \o SelectSeq(listing, HasTiffs)
    IN  AssignIndexes(t, sort_by_name(batch_dirs), start)

\* What init_jobs_from_dirs finds at input_root when it is called: a
\* directory it can list, a directory whose read_dir fails, or no directory
\* (the path does not exist or is a file).
RootStates == {"listable", "unreadable", "absent"}

\* init_jobs_from_dirs with its error paths: unreadable holds the listed
\* subdirectories whose own read_dir fails (no permission, or gone since
\* is_dir was asked)
init_jobs_from_dirs_result(t, input_root, listing, start, root_state, unreadable) ==
    LET Unreadable(d) == d \in unreadable
        failing == SelectSeq(listing, Unreadable)
    IN  IF root_state = "absent"
        THEN [ok |-> TRUE, err |-> None, jobs |-> <<>>]
        ELSE IF root_state = "unreadable"
        THEN [ok |-> FALSE, err |-> <<"read_dir", input_root>>,
              jobs |-> <<>>]
        ELSE IF failing # <<>>
        THEN [ok |-> FALSE, err |-> <<"read_dir", Head(failing)>>,
              jobs |-> <<>>]
        ELSE [ok |-> TRUE, err |-> None,
              jobs |-> init_jobs_from_dirs(t, input_root, listing, start)]


\* ------------------------------------------------------------ audit files
NoManifest == [built |-> FALSE, pages |-> <<>>]
NoLedger == [written |-> FALSE, log |-> <<>>]
EmptyAudit ==
    [dir |-> FALSE, manifest |-> NoManifest, ledger |-> NoLedger,
     previews |-> FALSE, report |-> FALSE]

LogDirs == {logs_dir_of(r, d) : r \in OutRoots, d \in BatchDirs}

\* ------------------------------------------------------------------ Init
\* The output a previous session left for one batch: nothing, or every file
\* of every kind together with the manifest and ledger of that run.
PreviousOutputs == {"none", "full"}

FullOutput(job, out_root) ==
    {OutFile(batch_output_dir(out_root, InputRoot, job.dir),
             AddU32(job.index_start, i), s) :
        i \in 0..(job.file_count - 1), s \in Suffixes}

PreviousAudit(job) ==
    [dir |-> TRUE,
     manifest |-> [built |-> TRUE,
                   pages |-> [p \in 1..job.file_count |->
                                [index |-> index_str(
                                     AddU32(job.index_start, p - 1), digits),
                                 present |-> Suffixes]]],
     ledger |-> [written |-> TRUE, log |-> <<<<"previous session">>>>],
     previews |-> TRUE, report |-> TRUE]

\* ------------------------------------------------------- compute_blake3
\* The bytes files are made of, and the files of at most MaxLen bytes.
MaxLen == 3
Bytes == {0, 1}
BufSize == 8192
HashFiles == 1..2
FileContents == UNION {[1..n -> Bytes] : n \in 0..MaxLen}

\* Stand-in for blake3::Hasher: an incremental hash, so that feeding a \o b
\* is feeding a and then b, without collisions on FileContents (which is
\* what BLAKE3 is trusted for); to_hex writes the value in lowercase hex.
Hasher_new == <<>>

\* faulty variant: the hasher is created anew for every chunk read
update_from_new(h, chunk) == chunk

update(h, chunk) == h \o chunk

RECURSIVE finalize(_)
finalize(h) ==
    IF h = <<>> THEN 0
    ELSE finalize(SubSeq(h, 1, Len(h) - 1)) * (Cardinality(Bytes) + 1)
             + h[Len(h)] + 1

HexDigits == <<"0", "1", "2", "3", "4", "5", "6", "7",
               "8", "9", "a", "b", "c", "d", "e", "f">>

RECURSIVE to_hex(_)
to_hex(n) ==
    IF n < 16 THEN <<HexDigits[n + 1]>>
    ELSE Append(to_hex(n \div 16), HexDigits[(n % 16) + 1])

\* what one file.read(&mut buf) may return with the given bytes left
read_sizes(left) ==
    IF left = 0 THEN {0}
    ELSE {n \in 1..left : n <= BufSize}

NoHashing ==
    /\ content = [f \in HashFiles |-> <<>>]
    /\ offset = [f \in HashFiles |-> 0]
    /\ hasher = [f \in HashFiles |-> Hasher_new]
    /\ chunks = [f \in HashFiles |-> <<>>]
    /\ digest = [f \in HashFiles |-> None]

\* main: output_root is created, discovery runs, App::new reconciles with
\* all four kinds switched on
Init ==
    /\ NoHashing
    /\ tree = [d \in BatchDirs |-> IF d = InputRoot THEN 1 ELSE MaxPages]
    /\ start_index = DefaultStartIndex
    /\ output_root = OutRoot1
    /\ do_master = TRUE /\ do_user = TRUE /\ do_txt = TRUE /\ do_alto = TRUE
    /\ LET discovered ==
              init_jobs_from_dirs(tree, InputRoot, <<SubDir>>, start_index)
       IN  \E prev \in [DOMAIN discovered -> PreviousOutputs] :
             /\ files = UNION {FullOutput(discovered[i], OutRoot1) :
                                 i \in {k \in DOMAIN discovered :
                                           prev[k] = "full"}}
             /\ outdirs = {OutRoot1} \cup
                    {batch_output_dir(OutRoot1, InputRoot, discovered[i].dir) :
                        i \in {k \in DOMAIN discovered : prev[k] # "none"}}
             /\ jobs = update_jobs_status_on_start(discovered, OutRoot1,
                           InputRoot, TRUE, TRUE, TRUE, TRUE)
             /\ audit = [d \in LogDirs |->
                   IF \E k \in DOMAIN discovered :
                         /\ prev[k] = "full"
                         /\ d = logs_dir_of(OutRoot1, discovered[k].dir)
                   THEN LET k == CHOOSE k \in DOMAIN discovered :
                                   d = logs_dir_of(OutRoot1, discovered[k].dir)
                        IN  PreviousAudit(discovered[k])
                   ELSE EmptyAudit]
    /\ late = {}
    /\ selected = 1
    /\ log_lines = <<>>
    /\ pc = "idle"
    /\ cur = 0 /\ sweep = 0 /\ tiffs = 0 /\ pos = 0 /\ stage = "none"
    /\ first_error = None /\ res = [ok |-> TRUE, err |-> <<>>] /\ attempt = 0
    /\ manifest = NoManifest /\ local_logs = <<>>
    /\ keys = 0 /\ fails = 0 /\ faults = 0

\* ------------------------------------------------------ operator actions
\* faulty variant: key events are handled while run_job is under way
Idle_during_run == TRUE

Idle == pc = "idle"

\* run_app reads one key event in mode Normal and calls its handler
Key ==
    /\ Idle
    /\ Spent < MaxEvents
    /\ keys' = keys + 1
    /\ UNCHANGED start_index
    /\ UNCHANGED hashvars

\* faulty variant: update_jobs_status called before the flag is flipped
Reconciled_before_toggle(dm, du, dt, da, out_root) ==
    update_jobs_status_on_start(jobs, out_root, InputRoot, do_master,
                                do_user, do_txt, do_alto)

Reconciled(dm, du, dt, da, out_root) ==
    update_jobs_status_on_start(jobs, out_root, InputRoot, dm, du, dt, da)

toggle_master ==
    /\ Key
    /\ do_master' = ~do_master
    /\ log_lines' = <<<<"AC (Master)", do_master'>>>>
    /\ jobs' = Reconciled(do_master', do_user, do_txt, do_alto, output_root)
    /\ UNCHANGED <<fsvars, selected, do_user, do_txt, do_alto, output_root,
                   pc, sweep, runvars, fails, faults>>

toggle_user ==
    /\ Key
    /\ do_user' = ~do_user
    /\ log_lines' = <<<<"UC (User)", do_user'>>>>
    /\ jobs' = Reconciled(do_master, do_user', do_txt, do_alto, output_root)
    /\ UNCHANGED <<fsvars, selected, do_master, do_txt, do_alto, output_root,
                   pc, sweep, runvars, fails, faults>>

toggle_txt ==
    /\ Key
    /\ do_txt' = ~do_txt
    /\ log_lines' = <<<<"TXT", do_txt'>>>>
    /\ jobs' = Reconciled(do_master, do_user, do_txt', do_alto, output_root)
    /\ UNCHANGED <<fsvars, selected, do_master, do_user, do_alto, output_root,
                   pc, sweep, runvars, fails, faults>>

toggle_alto ==
    /\ Key
    /\ do_alto' = ~do_alto
    /\ log_lines' = <<<<"ALTO", do_alto'>>>>
    /\ jobs' = Reconciled(do_master, do_user, do_txt, do_alto', output_root)
    /\ UNCHANGED <<fsvars, selected, do_master, do_user, do_txt, output_root,
                   pc, sweep, runvars, fails, faults>>

\* apply_edit in mode EditOutput; new_path is the trimmed edit buffer and
\* created tells whether create_dir_all succeeded
\* The reconciliation runs after create_dir_all: a root it has just made
\* exists and is empty, so that the batch whose output directory it is
\* passes the check exactly when no kind is required.
apply_edit_output ==
    /\ Key
    /\ \E new_path \in OutRoots, created \in BOOLEAN :
         /\ created \/ Spent < MaxEvents
         /\ IF created
            THEN /\ outdirs' = outdirs \cup {new_path}
                 /\ output_root' = new_path
                 /\ log_lines' = <<<<"Output root nastaven", new_path>>>>
                 /\ jobs' =
                      [i \in DOMAIN jobs |->
                          IF /\ new_path \notin outdirs
                             /\ batch_output_dir(new_path, InputRoot,
                                                 jobs[i].dir) = new_path
                             /\ ~(do_master \/ do_user \/ do_txt \/ do_alto)
                          THEN [jobs[i] EXCEPT !.status =
                                   IF @ = Done THEN Done ELSE AlreadyDone]
                          ELSE JobAfterReconcile(jobs[i], new_path, InputRoot,
                                  do_master, do_user, do_txt, do_alto)]
                 /\ faults' = faults
            ELSE /\ log_lines' = <<<<"Nelze vytvorit output root", new_path>>>>
                 /\ faults' = faults + 1
                 /\ UNCHANGED <<outdirs, output_root, jobs>>
    /\ UNCHANGED <<tree, files, late, audit, selected, do_master, do_user,
                   do_txt, do_alto, pc, sweep, runvars>>
    /\ UNCHANGED fails

\* faulty variant: a job list that is not empty is kept as it is
apply_edit_input_keeping ==
    /\ Key
    /\ \E is_dir \in BOOLEAN :
         IF ~is_dir
         THEN /\ log_lines' = <<<<"Input root neexistuje">>>>
              /\ UNCHANGED <<jobs, selected>>
         ELSE /\ log_lines' = <<<<"Input root nastaven", InputRoot>>>>
              /\ jobs' = IF jobs # <<>> THEN jobs
                         ELSE update_jobs_status_on_start(
                                 init_jobs_from_dirs(tree, InputRoot,
                                    <<SubDir>>, start_index),
                                 output_root, InputRoot, do_master, do_user,
                                 do_txt, do_alto)
              /\ selected' = 1
    /\ UNCHANGED <<fsvars, cfgvars, pc, sweep, runvars, fails, faults>>

\* apply_edit in mode EditInput; is_dir tells whether the typed path is a
\* directory (the input root itself) or not; a discovery that fails is
\* logged and leaves an empty job list
apply_edit_input ==
    /\ Key
    /\ \E is_dir \in BOOLEAN, root_state \in {"listable", "unreadable"},
          unreadable \in {{}, {SubDir}} :
         IF ~is_dir
         THEN /\ root_state = "listable" /\ unreadable = {}
              /\ log_lines' = <<<<"Input root neexistuje">>>>
              /\ UNCHANGED <<jobs, selected, faults>>
         ELSE LET r == init_jobs_from_dirs_result(tree, InputRoot,
                          <<SubDir>>, start_index, root_state, unreadable)
              IN  /\ r.ok \/ Spent + 1 < MaxEvents
                  /\ faults' = IF r.ok THEN faults ELSE faults + 1
                  /\ log_lines' =
                        IF r.ok THEN <<<<"Input root nastaven", InputRoot>>>>
                        ELSE <<<<"Input root nastaven", InputRoot>>,
                               <<"Chyba pri nacitani davek", r.err>>>>
                  /\ jobs' = update_jobs_status_on_start(r.jobs,
                                output_root, InputRoot, do_master, do_user,
                                do_txt, do_alto)
                  /\ selected' = 1
    /\ UNCHANGED <<fsvars, cfgvars, pc, sweep, runvars, fails>>

next_job ==
    /\ Key
    /\ jobs # <<>>
    /\ selected' = (selected % Len(jobs)) + 1
    /\ UNCHANGED <<fsvars, cfgvars, jobs, log_lines, pc, sweep, runvars, fails, faults>>

\* faulty variant: forcing a job removes the output it has
force_rerun_selected_cleaning ==
    /\ Key
    /\ IF jobs = <<>>
       THEN /\ log_lines' = <<<<"Zadna davka k prepracovani">>>>
            /\ UNCHANGED <<jobs, files>>
       ELSE LET idx == selected
                current_status == jobs[idx].status
            IN  IF current_status = AlreadyDone \/ current_status = Done
                THEN /\ jobs' = [jobs EXCEPT ![idx].status = Pending]
                     /\ files' = files \ FullOutput(jobs[idx], output_root)
                     /\ log_lines' = <<<<"nastavena na Pending", idx>>>>
                ELSE IF current_status = Processing
                THEN /\ log_lines' = <<<<"Davka prave zpracovava">>>>
                     /\ UNCHANGED <<jobs, files>>
                ELSE /\ log_lines' = <<<<"jiz Pending nebo Failed">>>>
                     /\ UNCHANGED <<jobs, files>>
    /\ UNCHANGED <<tree, late, outdirs, audit, cfgvars, selected, pc, sweep,
                   runvars, fails, faults>>

force_rerun_selected ==
    /\ Key
    /\ IF jobs = <<>>
       THEN /\ log_lines' = <<<<"Zadna davka k prepracovani">>>>
            /\ UNCHANGED jobs
       ELSE LET idx == selected
                current_status == jobs[idx].status
            IN  IF current_status = AlreadyDone \/ current_status = Done
                THEN /\ jobs' = [jobs EXCEPT ![idx].status = Pending]
                     /\ log_lines' = <<<<"nastavena na Pending", idx>>>>
                ELSE IF current_status = Processing
                THEN /\ log_lines' = <<<<"Davka prave zpracovava">>>>
                     /\ UNCHANGED jobs
                ELSE /\ log_lines' = <<<<"jiz Pending nebo Failed">>>>
                     /\ UNCHANGED jobs
    /\ UNCHANGED <<fsvars, cfgvars, selected, pc, sweep, runvars,
                   fails, faults>>

\* faulty variant: every job that is not Processing is reset
force_rerun_all_resetting ==
    /\ Key
    /\ LET hit == {i \in DOMAIN jobs : jobs[i].status # Processing}
       IN  /\ jobs' = [i \in DOMAIN jobs |->
                          IF i \in hit
                          THEN [jobs[i] EXCEPT !.status = Pending]
                          ELSE jobs[i]]
           /\ log_lines' = <<<<"nastaveno na Pending", Cardinality(hit)>>>>
    /\ UNCHANGED <<fsvars, cfgvars, selected, pc, sweep, runvars,
                   fails, faults>>

force_rerun_all ==
    /\ Key
    /\ LET hit == {i \in DOMAIN jobs :
                      jobs[i].status = AlreadyDone \/ jobs[i].status = Done}
       IN  /\ jobs' = [i \in DOMAIN jobs |->
                          IF i \in hit
                          THEN [jobs[i] EXCEPT !.status = Pending]
                          ELSE jobs[i]]
           /\ log_lines' = <<<<"nastaveno na Pending", Cardinality(hit)>>>>
    /\ UNCHANGED <<fsvars, cfgvars, selected, pc, sweep, runvars,
                   fails, faults>>


\* ------------------------------------------------------------- run_job
Ok == [ok |-> TRUE, err |-> None]
Err(e) == [ok |-> FALSE, err |-> e]

ResetRun ==
    /\ cur' = 0 /\ tiffs' = 0 /\ pos' = 0 /\ stage' = "none"
    /\ first_error' = None /\ res' = Ok /\ attempt' = 0
    /\ manifest' = NoManifest /\ local_logs' = <<>>

\* run_job up to the first page of process_batch: the job becomes
\* Processing, its output directory is created, the pages are listed.
\* listed tells whether collect_tiffs_in_dir could read the directory.
run_job_begin(job_index) ==
    LET job == jobs[job_index]
        batch_out_dir == batch_output_dir(output_root, InputRoot, job.dir)
        header == <<"=== Davka", job.dir, job.index_start>>
        count == collect_tiffs_in_dir(tree, job.dir)
        any_kind == do_master \/ do_user \/ do_txt \/ do_alto
    IN  /\ cur' = job_index
        /\ jobs' = [jobs EXCEPT ![job_index].status = Processing]
        /\ outdirs' = outdirs \cup {output_root, batch_out_dir}
        /\ first_error' = None
        /\ attempt' = 0
        /\ manifest' = NoManifest
        /\ \E listed \in BOOLEAN :
             /\ listed \/ Spent < MaxEvents
             /\ faults' = IF listed THEN faults ELSE faults + 1
             /\ IF ~listed
                THEN /\ res' = Err(<<"read_dir", job.dir>>)
                     /\ local_logs' = <<header>>
                     /\ pc' = "returned"
                     /\ tiffs' = 0 /\ pos' = 0 /\ stage' = "none"
                ELSE IF count = 0
                THEN /\ res' = Ok
                     /\ local_logs' = <<header, <<"Davka neobsahuje TIFF">>>>
                     /\ pc' = "returned"
                     /\ tiffs' = 0 /\ pos' = 0 /\ stage' = "none"
                ELSE IF ~any_kind
                THEN /\ res' = Ok
                     /\ local_logs' = <<header, <<"Nic neni zapnuto">>>>
                     /\ pc' = "returned"
                     /\ tiffs' = count /\ pos' = 0 /\ stage' = "none"
                ELSE /\ res' = Ok
                     /\ local_logs' = <<header>>
                     /\ pc' = "batch"
                     /\ tiffs' = count /\ pos' = 1 /\ stage' = "master"
        /\ UNCHANGED <<tree, files, late, audit, selected, cfgvars, fails>>

\* faulty variant: the selected job is run whatever its status
process_selected_unchecked ==
    /\ Key
    /\ IF jobs = <<>>
       THEN /\ log_lines' = <<<<"Zadna davka k zpracovani">>>>
            /\ UNCHANGED <<fsvars, jobs, selected, cfgvars, pc, sweep,
                           runvars, fails, faults>>
       ELSE /\ log_lines' = <<>>
            /\ run_job_begin(selected)
            /\ UNCHANGED sweep

process_selected ==
    /\ Key
    /\ IF jobs = <<>>
       THEN /\ log_lines' = <<<<"Zadna davka k zpracovani">>>>
            /\ UNCHANGED <<fsvars, jobs, selected, cfgvars, pc, sweep,
                           runvars, fails, faults>>
       ELSE IF jobs[selected].status = AlreadyDone
       THEN /\ log_lines' = <<<<"Davka je jiz zpracovana. Pouzijte F">>>>
            /\ UNCHANGED <<fsvars, jobs, selected, cfgvars, pc, sweep,
                           runvars, fails, faults>>
       ELSE /\ log_lines' = <<>>
            /\ run_job_begin(selected)
            /\ UNCHANGED sweep

process_all_pending ==
    /\ Key
    /\ IF jobs = <<>>
       THEN /\ log_lines' = <<<<"Zadne davky k zpracovani">>>>
            /\ UNCHANGED <<pc, sweep>>
       ELSE /\ log_lines' = <<<<"Spoustim zpracovani vsech Pending">>>>
            /\ pc' = "sweep"
            /\ sweep' = 1
    /\ UNCHANGED <<fsvars, jobs, selected, cfgvars, runvars, fails, faults>>

\* faulty variant: the test of process_selected, only AlreadyDone is skipped
is_processable_not_already_done(status) == status # AlreadyDone

is_processable(status) == status = Pending \/ status.tag = "Failed"

\* one iteration of the for loop of process_all_pending
process_all_pending_step ==
    /\ pc = "sweep"
    /\ UNCHANGED hashvars
    /\ IF sweep > Len(jobs)
       THEN /\ log_lines' = Append(log_lines, <<"Hromadne zpracovani dokonceno">>)
            /\ pc' = "idle"
            /\ sweep' = 0
            /\ UNCHANGED <<fsvars, jobs, selected, cfgvars, runvars, keys, start_index,
                           fails, faults>>
       ELSE IF is_processable(jobs[sweep].status)
       THEN /\ run_job_begin(sweep)
            /\ UNCHANGED <<sweep, log_lines, keys, start_index>>
       ELSE /\ sweep' = sweep + 1
            /\ UNCHANGED <<fsvars, jobs, selected, cfgvars, runvars, keys, start_index,
                           fails, faults, pc, log_lines>>

\* --------------------------------------------------------- process_batch
\* How one tool invocation ends: "ok" exit 0 and the outputs are there,
\* "late" exit 0 and the outputs are not visible yet (or --dry-run),
\* "fail" the process could not be started or exited nonzero.
ToolOutcomes == {"ok", "late", "fail"}

CurIdx == AddU32(jobs[cur].index_start, pos - 1)
CurOutDir == batch_output_dir(output_root, InputRoot, jobs[cur].dir)

\* faulty variant: a failed invocation is tried a second time
Invoke_retrying(label, outputs, context, err_line, outcome) ==
    LET produced == {OutFile(CurOutDir, CurIdx, s) : s \in outputs}
        cmd == <<"cmd", label, index_str(CurIdx, digits)>>
        e == <<context, pos>>
    IN  /\ outcome = "fail" => Spent < MaxEvents
        /\ outcome = "late" => Spent < MaxEvents
        /\ fails' = IF outcome = "fail" THEN fails + 1 ELSE fails
        /\ faults' = IF outcome = "late" THEN faults + 1 ELSE faults
        /\ files' = IF outcome = "ok" THEN files \cup produced ELSE files
        /\ late' = IF outcome = "ok" THEN late \ produced
                   ELSE IF outcome = "late" THEN late \cup (produced \ files)
                   ELSE late
        /\ local_logs' = IF outcome = "fail"
                         THEN local_logs \o <<cmd, cmd, <<err_line, e>>>>
                         ELSE Append(local_logs, cmd)
        /\ first_error' = IF outcome = "fail" /\ first_error = None
                          THEN e ELSE first_error

\* faulty variant: every failure overwrites first_error
Invoke_last_error(label, outputs, context, err_line, outcome) ==
    LET produced == {OutFile(CurOutDir, CurIdx, s) : s \in outputs}
        cmd == <<"cmd", label, index_str(CurIdx, digits)>>
        e == <<context, pos>>
    IN  /\ outcome = "fail" => Spent < MaxEvents
        /\ outcome = "late" => Spent < MaxEvents
        /\ fails' = IF outcome = "fail" THEN fails + 1 ELSE fails
        /\ faults' = IF outcome = "late" THEN faults + 1 ELSE faults
        /\ files' = IF outcome = "ok" THEN files \cup produced ELSE files
        /\ late' = IF outcome = "ok" THEN late \ produced
                   ELSE IF outcome = "late" THEN late \cup (produced \ files)
                   ELSE late
        /\ local_logs' = IF outcome = "fail"
                         THEN local_logs \o <<cmd, <<err_line, e>>>>
                         ELSE Append(local_logs, cmd)
        /\ first_error' = IF outcome = "fail" THEN e ELSE first_error

\* one invocation: label is the command logged, outputs the suffixes it is
\* asked to write, context the with_context message, err_line the log prefix
Invoke(label, outputs, context, err_line, outcome) ==
    LET produced == {OutFile(CurOutDir, CurIdx, s) : s \in outputs}
        cmd == <<"cmd", label, index_str(CurIdx, digits)>>
        e == <<context, pos>>
    IN  /\ outcome = "fail" => Spent < MaxEvents
        /\ outcome = "late" => Spent < MaxEvents
        /\ fails' = IF outcome = "fail" THEN fails + 1 ELSE fails
        /\ faults' = IF outcome = "late" THEN faults + 1 ELSE faults
        /\ files' = IF outcome = "ok" THEN files \cup produced ELSE files
        /\ late' = IF outcome = "ok" THEN late \ produced
                   ELSE IF outcome = "late" THEN late \cup (produced \ files)
                   ELSE late
        /\ local_logs' = IF outcome = "fail"
                         THEN local_logs \o <<cmd, <<err_line, e>>>>
                         ELSE Append(local_logs, cmd)
        /\ first_error' = IF outcome = "fail" /\ first_error = None
                          THEN e ELSE first_error

NoInvoke == UNCHANGED <<files, late, local_logs, first_error, fails, faults>>

run_grok_master ==
    /\ pc = "batch" /\ stage = "master"
    /\ UNCHANGED hashvars
    /\ IF do_master
       THEN \E outcome \in ToolOutcomes :
               Invoke("Grok Master", {AC}, "Master JP2 selhalo",
                      "Chyba Master", outcome)
       ELSE NoInvoke
    /\ stage' = "user"
    /\ UNCHANGED <<tree, outdirs, audit, jobs, selected, cfgvars, log_lines,
                   pc, cur, sweep, tiffs, pos, res, attempt, manifest, keys, start_index>>

run_grok_user ==
    /\ pc = "batch" /\ stage = "user"
    /\ UNCHANGED hashvars
    /\ IF do_user
       THEN \E outcome \in ToolOutcomes :
               Invoke("Grok User", {UC}, "User JP2 selhalo",
                      "Chyba User", outcome)
       ELSE NoInvoke
    /\ stage' = "ocr"
    /\ UNCHANGED <<tree, outdirs, audit, jobs, selected, cfgvars, log_lines,
                   pc, cur, sweep, tiffs, pos, res, attempt, manifest, keys, start_index>>

\* the OCR stage of a page, idx += 1, and after the last page the return
\* value of process_batch
run_tess_unified ==
    /\ pc = "batch" /\ stage = "ocr"
    /\ UNCHANGED hashvars
    /\ IF do_txt \/ do_alto
       THEN \E outcome \in ToolOutcomes :
               Invoke("Tesseract",
                      (IF do_alto THEN {ALTO} ELSE {})
                         \cup (IF do_txt THEN {TXT} ELSE {}),
                      "Tesseract selhalo", "Chyba OCR", outcome)
       ELSE NoInvoke
    /\ IF pos < tiffs
       THEN /\ pos' = pos + 1
            /\ stage' = "master"
            /\ UNCHANGED <<pc, res>>
       ELSE /\ pc' = "returned"
            /\ res' = IF first_error' # None THEN Err(first_error') ELSE Ok
            /\ UNCHANGED <<pos, stage>>
    /\ UNCHANGED <<tree, outdirs, audit, jobs, selected, cfgvars, log_lines,
                   cur, sweep, tiffs, attempt, manifest, keys, start_index>>

\* faulty variant: the post-pipeline stages are not guarded by the result
run_job_resolve_unguarded ==
    /\ pc = "returned"
    /\ UNCHANGED hashvars
    /\ IF res.ok
       THEN /\ jobs' = [jobs EXCEPT ![cur].status = Done]
            /\ local_logs' = local_logs \o
                   <<<<"Davka OK">>, <<"Cekam na dokonceni zapisu souboru">>>>
            /\ IF do_master \/ do_user
               THEN pc' = "wait" /\ attempt' = 1
               ELSE pc' = "manifest" /\ attempt' = 0
       ELSE /\ jobs' = [jobs EXCEPT ![cur].status = Failed(res.err)]
            /\ local_logs' = Append(local_logs, <<"Davka FAILED">>)
            /\ pc' = "manifest"
            /\ attempt' = 0
    /\ UNCHANGED <<fsvars, selected, cfgvars, log_lines, cur, sweep, tiffs,
                   pos, stage, first_error, res, manifest, keys, start_index,
                   fails, faults>>

\* run_job after process_batch returned: the terminal status
\* faulty variant: the manifest is built without waiting for the JP2 files
run_job_resolve_no_wait ==
    /\ pc = "returned"
    /\ UNCHANGED hashvars
    /\ IF res.ok
       THEN /\ jobs' = [jobs EXCEPT ![cur].status = Done]
            /\ local_logs' = local_logs \o
                   <<<<"Davka OK">>, <<"Cekam na dokonceni zapisu souboru">>>>
            /\ pc' = "manifest" /\ attempt' = 0
       ELSE /\ jobs' = [jobs EXCEPT ![cur].status = Failed(res.err)]
            /\ local_logs' = Append(local_logs, <<"Davka FAILED">>)
            /\ pc' = "flush"
            /\ attempt' = 0
    /\ UNCHANGED <<fsvars, selected, cfgvars, log_lines, cur, sweep, tiffs,
                   pos, stage, first_error, res, manifest, keys, start_index, fails, faults>>

run_job_resolve ==
    /\ pc = "returned"
    /\ UNCHANGED hashvars
    /\ IF res.ok
       THEN /\ jobs' = [jobs EXCEPT ![cur].status = Done]
            /\ local_logs' = local_logs \o
                   <<<<"Davka OK">>, <<"Cekam na dokonceni zapisu souboru">>>>
            /\ IF do_master \/ do_user
               THEN pc' = "wait" /\ attempt' = 1
               ELSE pc' = "manifest" /\ attempt' = 0
       ELSE /\ jobs' = [jobs EXCEPT ![cur].status = Failed(res.err)]
            /\ local_logs' = Append(local_logs, <<"Davka FAILED">>)
            /\ pc' = "flush"
            /\ attempt' = 0
    /\ UNCHANGED <<fsvars, selected, cfgvars, log_lines, cur, sweep, tiffs,
                   pos, stage, first_error, res, manifest, keys, start_index, fails, faults>>

\* faulty variant: one poll more than max_attempts
wait_for_jp2_files_one_more ==
    /\ pc = "wait"
    /\ UNCHANGED hashvars
    /\ LET job == jobs[cur]
           all_files_exist ==
               \A i \in 0..(job.file_count - 1) :
                  LET idx == AddU32(job.index_start, i)
                  IN  /\ do_master => FileExists(OutFile(CurOutDir, idx, AC))
                      /\ do_user => FileExists(OutFile(CurOutDir, idx, UC))
       IN  IF all_files_exist
           THEN /\ local_logs' = Append(local_logs,
                       <<"Vsechny JP2 soubory pripraveny", attempt>>)
                /\ pc' = "manifest"
                /\ UNCHANGED attempt
           ELSE IF attempt <= max_attempts
           THEN /\ local_logs' = Append(local_logs,
                       <<"Cekam na JP2 soubory", attempt>>)
                /\ attempt' = attempt + 1
                /\ UNCHANGED pc
           ELSE /\ local_logs' = Append(local_logs,
                       <<"Varovani: JP2 soubory nebyly vytvoreny vcas">>)
                /\ pc' = "manifest"
                /\ UNCHANGED attempt
    /\ UNCHANGED <<fsvars, jobs, selected, cfgvars, log_lines, cur, sweep,
                   tiffs, pos, stage, first_error, res, manifest, keys,
                   start_index, fails, faults>>

\* faulty variant: running out of attempts fails the job
wait_for_jp2_files_failing ==
    /\ pc = "wait"
    /\ UNCHANGED hashvars
    /\ LET job == jobs[cur]
           all_files_exist ==
               \A i \in 0..(job.file_count - 1) :
                  LET idx == AddU32(job.index_start, i)
                  IN  /\ do_master => FileExists(OutFile(CurOutDir, idx, AC))
                      /\ do_user => FileExists(OutFile(CurOutDir, idx, UC))
       IN  IF all_files_exist
           THEN /\ local_logs' = Append(local_logs,
                       <<"Vsechny JP2 soubory pripraveny", attempt>>)
                /\ pc' = "manifest"
                /\ UNCHANGED <<attempt, jobs>>
           ELSE IF attempt < max_attempts
           THEN /\ local_logs' = Append(local_logs,
                       <<"Cekam na JP2 soubory", attempt>>)
                /\ attempt' = attempt + 1
                /\ UNCHANGED <<pc, jobs>>
           ELSE /\ local_logs' = Append(local_logs,
                       <<"Varovani: JP2 soubory nebyly vytvoreny vcas">>)
                /\ jobs' = [jobs EXCEPT ![cur].status =
                               Failed(<<"JP2 soubory nebyly vytvoreny vcas">>)]
                /\ pc' = "manifest"
                /\ UNCHANGED attempt
    /\ UNCHANGED <<fsvars, selected, cfgvars, log_lines, cur, sweep,
                   tiffs, pos, stage, first_error, res, manifest, keys,
                   start_index, fails, faults>>

\* one attempt of wait_for_jp2_files
wait_for_jp2_files ==
    /\ pc = "wait"
    /\ UNCHANGED hashvars
    /\ LET job == jobs[cur]
           all_files_exist ==
               \A i \in 0..(job.file_count - 1) :
                  LET idx == AddU32(job.index_start, i)
                  IN  /\ do_master => FileExists(OutFile(CurOutDir, idx, AC))
                      /\ do_user => FileExists(OutFile(CurOutDir, idx, UC))
       IN  IF all_files_exist
           THEN /\ local_logs' = Append(local_logs,
                       <<"Vsechny JP2 soubory pripraveny", attempt>>)
                /\ pc' = "manifest"
                /\ UNCHANGED attempt
           ELSE IF attempt < max_attempts
           THEN /\ local_logs' = Append(local_logs,
                       <<"Cekam na JP2 soubory", attempt>>)
                /\ attempt' = attempt + 1
                /\ UNCHANGED pc
           ELSE /\ local_logs' = Append(local_logs,
                       <<"Varovani: JP2 soubory nebyly vytvoreny vcas">>)
                /\ pc' = "manifest"
                /\ UNCHANGED attempt
    /\ UNCHANGED <<fsvars, jobs, selected, cfgvars, log_lines, cur, sweep,
                   tiffs, pos, stage, first_error, res, manifest, keys, start_index,
                   fails, faults>>


\* faulty variant: records of the manifest already on disk are kept
manifest_pages_carrying(job, out_dir, dm, du, dt, da) ==
    LET old == audit[logs_dir_of(output_root, job.dir)].manifest.pages
    IN  [p \in 1..collect_tiffs_in_dir(tree, job.dir) |->
            LET idx == AddU32(job.index_start, p - 1)
            IN  [index |-> index_str(idx, digits),
                 present |-> {s \in Enabled(dm, du, dt, da) :
                                 FileExists(OutFile(out_dir, idx, s))}
                             \cup (IF p \in DOMAIN old
                                   THEN old[p].present ELSE {})]]

\* ------------------------------------------------- manifest and ledger
\* build_manifest_for_batch on a readable tree: the pages are listed again
\* and every enabled kind whose file exists gets a record
manifest_pages(job, out_dir, dm, du, dt, da) ==
    [p \in 1..collect_tiffs_in_dir(tree, job.dir) |->
        LET idx == AddU32(job.index_start, p - 1)
        IN  [index |-> index_str(idx, digits),
             present |-> {s \in Enabled(dm, du, dt, da) :
                             FileExists(OutFile(out_dir, idx, s))}]]

has_jp2_files(pages) ==
    \E p \in DOMAIN pages : AC \in pages[p].present \/ UC \in pages[p].present

\* run_job steps 3-5: build the manifest, write manifest.json and log.txt.
\* build_manifest_for_batch returns Err when create_dir_all(logs_dir) fails
\* ("mkdir_err"), when the page images cannot be listed ("list_err"), or
\* when file_info fails on a file that is there ("read_err");
\* "json_err": write failed before manifest.json was written;
\* "log_err": manifest.json was written, writing log.txt failed.
BuildErrors == {"mkdir_err", "list_err", "read_err"}
ManifestOutcomes == {"ok", "json_err", "log_err"} \cup BuildErrors

build_manifest_for_batch ==
    /\ pc = "manifest"
    /\ UNCHANGED hashvars
    /\ LET job == jobs[cur]
           logs_dir == logs_dir_of(output_root, job.dir)
           pages == manifest_pages(job, CurOutDir, do_master, do_user,
                                   do_txt, do_alto)
           built == [built |-> TRUE, pages |-> pages]
           ledger == [written |-> TRUE, log |-> local_logs]
       IN  \E outcome \in ManifestOutcomes :
             /\ outcome = "ok" \/ Spent < MaxEvents
             /\ faults' = IF outcome = "ok" THEN faults ELSE faults + 1
             /\ audit' =
                  CASE outcome = "ok" ->
                         [audit EXCEPT ![logs_dir].dir = TRUE,
                                       ![logs_dir].manifest = built,
                                       ![logs_dir].ledger = ledger]
                    [] outcome = "log_err" ->
                         [audit EXCEPT ![logs_dir].dir = TRUE,
                                       ![logs_dir].manifest = built]
                    [] outcome = "mkdir_err" -> audit
                    [] OTHER -> [audit EXCEPT ![logs_dir].dir = TRUE]
             /\ IF outcome \in BuildErrors
                THEN /\ manifest' = NoManifest
                     /\ local_logs' = Append(local_logs,
                            <<"Chyba pri generovani manifestu", outcome>>)
                     /\ pc' = "flush"
                ELSE /\ manifest' = built
                     /\ local_logs' = local_logs \o
                          <<IF outcome = "ok"
                            THEN <<"Manifest a log.txt vytvoreny">>
                            ELSE <<"Chyba pri zapisu manifestu/log.txt">>,
                            IF has_jp2_files(pages)
                            THEN <<"Generuji WebP nahledy">>
                            ELSE <<"Zadne JP2 soubory pro WebP konverzi">>>>
                     /\ pc' = IF has_jp2_files(pages)
                              THEN "preview" ELSE "report"
    /\ UNCHANGED <<tree, files, late, outdirs, jobs, selected, cfgvars,
                   log_lines, cur, sweep, tiffs, pos, stage, first_error,
                   res, attempt, keys, start_index>>
    /\ UNCHANGED fails

generate_webp_previews ==
    /\ pc = "preview"
    /\ UNCHANGED hashvars
    /\ LET logs_dir == logs_dir_of(output_root, jobs[cur].dir)
       IN  \E ok \in BOOLEAN :
             /\ ok \/ Spent < MaxEvents
             /\ faults' = IF ok THEN faults ELSE faults + 1
             /\ audit' = IF ok THEN [audit EXCEPT ![logs_dir].previews = TRUE]
                         ELSE audit
             /\ local_logs' = Append(local_logs,
                    IF ok THEN <<"WEBP nahledy vygenerovany">>
                    ELSE <<"Chyba pri generovani WEBP nahledu">>)
    /\ pc' = "report"
    /\ UNCHANGED <<tree, files, late, outdirs, jobs, selected, cfgvars,
                   log_lines, cur, sweep, tiffs, pos, stage, first_error,
                   res, attempt, manifest, keys, start_index>>
    /\ UNCHANGED fails

write_html_report ==
    /\ pc = "report"
    /\ UNCHANGED hashvars
    /\ LET logs_dir == logs_dir_of(output_root, jobs[cur].dir)
       IN  \E ok \in BOOLEAN :
             /\ ok \/ Spent < MaxEvents
             /\ faults' = IF ok THEN faults ELSE faults + 1
             /\ audit' = IF ok THEN [audit EXCEPT ![logs_dir].report = TRUE]
                         ELSE audit
             /\ local_logs' = Append(local_logs,
                    IF ok THEN <<"HTML report vytvoren">>
                    ELSE <<"Chyba pri tvorbe HTML reportu">>)
    /\ pc' = "flush"
    /\ UNCHANGED <<tree, files, late, outdirs, jobs, selected, cfgvars,
                   log_lines, cur, sweep, tiffs, pos, stage, first_error,
                   res, attempt, manifest, keys, start_index>>
    /\ UNCHANGED fails

\* the end of run_job: local_logs go to the application log
\* faulty variant: a run whose manifest was not built ends the sweep
run_job_end_aborting ==
    /\ pc = "flush"
    /\ UNCHANGED hashvars
    /\ log_lines' = log_lines \o local_logs
    /\ ResetRun
    /\ IF sweep > 0 /\ (manifest.built \/ jobs[cur].status # Done)
       THEN pc' = "sweep" /\ sweep' = sweep + 1
       ELSE pc' = "idle" /\ sweep' = 0
    /\ UNCHANGED <<fsvars, jobs, selected, cfgvars, keys, start_index, fails, faults>>

run_job_end ==
    /\ pc = "flush"
    /\ UNCHANGED hashvars
    /\ log_lines' = log_lines \o local_logs
    /\ ResetRun
    /\ IF sweep > 0
       THEN pc' = "sweep" /\ sweep' = sweep + 1
       ELSE pc' = "idle" /\ UNCHANGED sweep
    /\ UNCHANGED <<fsvars, jobs, selected, cfgvars, keys, start_index, fails, faults>>

\* ---------------------------------------------------------- environment
\* Files are deleted and page images removed by people, between two key
\* events.  The files the tools have written become visible at any moment
\* at which the program is about to look at the output again.
EnvTurn == pc \in {"idle", "wait", "manifest"}

\* somebody deletes an output file
delete_output_file ==
    /\ Idle
    /\ UNCHANGED hashvars
    /\ Spent < MaxEvents
    /\ \E f \in files : files' = files \ {f}
    /\ faults' = faults + 1
    /\ UNCHANGED <<tree, late, outdirs, audit, jobs, selected, cfgvars,
                   log_lines, pc, sweep, runvars, keys, start_index>>
    /\ UNCHANGED fails

\* the files the tools have written become visible
files_become_visible ==
    /\ EnvTurn
    /\ UNCHANGED hashvars
    /\ late # {}
    /\ files' = files \cup late
    /\ late' = {}
    /\ UNCHANGED <<tree, outdirs, audit, jobs, selected, cfgvars, log_lines,
                   pc, sweep, runvars, keys, start_index, fails, faults>>

\* somebody removes the last page image of a batch directory
remove_tiff ==
    /\ Idle
    /\ UNCHANGED hashvars
    /\ Spent < MaxEvents
    /\ \E d \in BatchDirs : tree[d] > 0 /\ tree' = [tree EXCEPT ![d] = @ - 1]
    /\ faults' = faults + 1
    /\ UNCHANGED <<files, late, outdirs, audit, jobs, selected, cfgvars,
                   log_lines, pc, sweep, runvars, keys, start_index>>
    /\ UNCHANGED fails

Next ==
    \/ toggle_master
    \/ toggle_user
    \/ toggle_txt
    \/ toggle_alto
    \/ apply_edit_output
    \/ apply_edit_input
    \/ next_job
    \/ force_rerun_selected
    \/ force_rerun_all
    \/ process_selected
    \/ process_all_pending
    \/ process_all_pending_step
    \/ run_grok_master
    \/ run_grok_user
    \/ run_tess_unified
    \/ run_job_resolve
    \/ wait_for_jp2_files
    \/ build_manifest_for_batch
    \/ generate_webp_previews
    \/ write_html_report
    \/ run_job_end
    \/ delete_output_file
    \/ files_become_visible
    \/ remove_tiff

Spec == Init /\ [][Next]_vars


\* ------------------------------------------- with every kind switched off
\* The operator has switched the four kinds off, one toggle after the
\* other, before anything was run: the state after the fourth toggle and
\* its reconciliation.
InitOff ==
    /\ NoHashing
    /\ tree = [d \in BatchDirs |-> IF d = InputRoot THEN 1 ELSE MaxPages]
    /\ start_index = DefaultStartIndex
    /\ output_root = OutRoot1
    /\ do_master = FALSE /\ do_user = FALSE /\ do_txt = FALSE
    /\ do_alto = FALSE
    /\ LET discovered ==
              init_jobs_from_dirs(tree, InputRoot, <<SubDir>>, start_index)
       IN  \E prev \in [DOMAIN discovered -> PreviousOutputs] :
             /\ files = UNION {FullOutput(discovered[i], OutRoot1) :
                                 i \in {k \in DOMAIN discovered :
                                           prev[k] = "full"}}
             /\ outdirs = {OutRoot1} \cup
                    {batch_output_dir(OutRoot1, InputRoot, discovered[i].dir) :
                        i \in {k \in DOMAIN discovered : prev[k] # "none"}}
             /\ jobs = update_jobs_status_on_start(discovered, OutRoot1,
                           InputRoot, FALSE, FALSE, FALSE, FALSE)
             /\ audit = [d \in LogDirs |->
                   IF \E k \in DOMAIN discovered :
                         /\ prev[k] = "full"
                         /\ d = logs_dir_of(OutRoot1, discovered[k].dir)
                   THEN LET k == CHOOSE k \in DOMAIN discovered :
                                   d = logs_dir_of(OutRoot1, discovered[k].dir)
                        IN  PreviousAudit(discovered[k])
                   ELSE EmptyAudit]
    /\ late = {}
    /\ selected = 1
    /\ log_lines \in {<<<<k, FALSE>>>> :
                         k \in {"AC (Master)", "UC (User)", "TXT", "ALTO"}}
    /\ pc = "idle"
    /\ cur = 0 /\ sweep = 0 /\ tiffs = 0 /\ pos = 0 /\ stage = "none"
    /\ first_error = None /\ res = [ok |-> TRUE, err |-> <<>>] /\ attempt = 0
    /\ manifest = NoManifest /\ local_logs = <<>>
    /\ keys = 0 /\ fails = 0 /\ faults = 0

SpecOff == InitOff /\ [][Next]_vars

\* ------------------------------------------------ discovery on its own
\* Discovery over an input tree that fills up with page images, from
\* several start offsets, with read_dir listing the subdirectories in any
\* order.  The input root starts empty, as main creates it.
StartOffsets == {0, 1, 7}
DiscSubDirs == {Append(InputRoot, n) : n \in {"a"} \cup InvalidNames}
DiscDirs == {InputRoot} \cup DiscSubDirs

Listings(dirs) ==
    {l \in [1..Cardinality(dirs) -> dirs] :
        \A i, j \in 1..Cardinality(dirs) : l[i] = l[j] => i = j}

InitDisc ==
    /\ NoHashing
    /\ tree = [d \in DiscDirs |-> 0]
    /\ start_index \in StartOffsets
    /\ jobs = <<>>
    /\ output_root = OutRoot1
    /\ do_master = TRUE /\ do_user = TRUE /\ do_txt = TRUE /\ do_alto = TRUE
    /\ files = {} /\ late = {} /\ outdirs = {OutRoot1}
    /\ audit = [d \in LogDirs |-> EmptyAudit]
    /\ selected = 1
    /\ log_lines = <<>>
    /\ pc = "idle"
    /\ cur = 0 /\ sweep = 0 /\ tiffs = 0 /\ pos = 0 /\ stage = "none"
    /\ first_error = None /\ res = Ok /\ attempt = 0
    /\ manifest = NoManifest /\ local_logs = <<>>
    /\ keys = 0 /\ fails = 0 /\ faults = 0

\* somebody puts one more page image into a directory of the input tree
add_tiff ==
    /\ UNCHANGED hashvars
    /\ \E d \in DiscDirs :
          /\ tree[d] < MaxPages
          /\ tree' = [tree EXCEPT ![d] = @ + 1]
    /\ UNCHANGED <<files, late, outdirs, audit, start_index, jobs, selected,
                   cfgvars, log_lines, pc, sweep, runvars, keys, fails,
                   faults>>

\* at most one of the listed subdirectories cannot be read
UnreadableSets == {{}} \cup {{d} : d \in DiscSubDirs}

\* what a call may meet: a root that lists its subdirectories in some
\* order, or a root that yields no listing
DiscoveryInputs ==
    {[listing |-> l, root_state |-> "listable", unreadable |-> u] :
        l \in Listings(DiscSubDirs), u \in UnreadableSets}
    \cup {[listing |-> <<>>, root_state |-> rs, unreadable |-> {}] :
             rs \in RootStates \ {"listable"}}

\* a discovery pass: apply_edit accepts the input root again; a failed
\* discovery is logged and leaves an empty job list
discover ==
    /\ UNCHANGED hashvars
    /\ \E in \in DiscoveryInputs :
          LET r == init_jobs_from_dirs_result(tree, InputRoot, in.listing,
                      start_index, in.root_state, in.unreadable)
          IN  /\ jobs' = r.jobs
              /\ log_lines' =
                    IF r.ok THEN <<<<"Input root nastaven", InputRoot>>>>
                    ELSE <<<<"Input root nastaven", InputRoot>>,
                           <<"Chyba pri nacitani davek", r.err>>>>
    /\ selected' = 1
    /\ UNCHANGED <<fsvars, start_index, cfgvars, pc, sweep,
                   runvars, keys, fails, faults>>

NextDisc ==
    \/ add_tiff
    \/ discover

SpecDisc == InitDisc /\ [][NextDisc]_vars

\* --------------------------------------------- compute_blake3 on its own
\* Two calls of compute_blake3, one per file; the second file has the bytes
\* of the first, or the bytes of the first with one byte changed.
OneByteChanged(a) ==
    {[a EXCEPT ![i] = b] : i \in DOMAIN a, b \in Bytes} \ {a}

InitHash ==
    /\ content \in {c \in [HashFiles -> FileContents] :
                       c[2] = c[1] \/ c[2] \in OneByteChanged(c[1])}
    /\ offset = [f \in HashFiles |-> 0]
    /\ hasher = [f \in HashFiles |-> Hasher_new]
    /\ chunks = [f \in HashFiles |-> <<>>]
    /\ digest = [f \in HashFiles |-> None]
    /\ tree = [d \in DiscDirs |-> 0]
    /\ start_index = DefaultStartIndex
    /\ jobs = <<>>
    /\ output_root = OutRoot1
    /\ do_master = TRUE /\ do_user = TRUE /\ do_txt = TRUE /\ do_alto = TRUE
    /\ files = {} /\ late = {} /\ outdirs = {OutRoot1}
    /\ audit = [d \in LogDirs |-> EmptyAudit]
    /\ selected = 1
    /\ log_lines = <<>>
    /\ pc = "idle"
    /\ cur = 0 /\ sweep = 0 /\ tiffs = 0 /\ pos = 0 /\ stage = "none"
    /\ first_error = None /\ res = Ok /\ attempt = 0
    /\ manifest = NoManifest /\ local_logs = <<>>
    /\ keys = 0 /\ fails = 0 /\ faults = 0

\* one turn of the loop with n > 0: the bytes read are fed to the hasher
read_and_update ==
    /\ \E f \in HashFiles :
          /\ digest[f] = None
          /\ \E n \in read_sizes(Len(content[f]) - offset[f]) :
                /\ n # 0
                /\ hasher' = [hasher EXCEPT ![f] =
                      update(@, SubSeq(content[f], offset[f] + 1,
                                       offset[f] + n))]
                /\ offset' = [offset EXCEPT ![f] = @ + n]
                /\ chunks' = [chunks EXCEPT ![f] = Append(@, n)]
    /\ UNCHANGED <<content, digest>>
    /\ UNCHANGED vars

\* the turn of the loop with n = 0: break, and the digest is returned
finalize_to_hex ==
    /\ \E f \in HashFiles :
          /\ digest[f] = None
          /\ 0 \in read_sizes(Len(content[f]) - offset[f])
          /\ digest' = [digest EXCEPT ![f] = to_hex(finalize(hasher[f]))]
    /\ UNCHANGED <<content, offset, hasher, chunks>>
    /\ UNCHANGED vars

NextHash ==
    \/ read_and_update
    \/ finalize_to_hex

SpecHash == InitHash /\ [][NextHash]_<<vars, hashvars>>

\* ------------------------------------------------------------ properties
\* The output files a job needs in output root out_root when the kinds K
\* are enabled, and whether the output found in the file set fs and the
\* directory set ds is complete for it.
Required(job, out_root, K) ==
    {OutFile(batch_output_dir(out_root, InputRoot, job.dir),
             AddU32(job.index_start, i), s) :
        i \in 0..(job.file_count - 1), s \in K}

OutputComplete(job, out_root, K, fs, ds) ==
    /\ batch_output_dir(out_root, InputRoot, job.dir) \in ds
    /\ Required(job, out_root, K) \subseteq fs

KindsNow == Enabled(do_master, do_user, do_txt, do_alto)
KindsAfter == Enabled(do_master', do_user', do_txt', do_alto')

\* the handlers that end in a reconciliation of the job list they keep
ToggleStep == toggle_master \/ toggle_user \/ toggle_txt \/ toggle_alto
RootStep ==
    apply_edit_output /\ log_lines' = <<<<"Output root nastaven", output_root'>>>>
ReconcileStep == ToggleStep \/ RootStep
\* the accepted input root edit: discovery, then reconciliation of new jobs
InputStep ==
    apply_edit_input /\ log_lines' = <<<<"Input root nastaven", InputRoot>>>>

ToggleLines ==
    {<<<<k, b>>>> : k \in {"AC (Master)", "UC (User)", "TXT", "ALTO"},
                    b \in BOOLEAN}

\* the command lines and the failure lines of a run's log
IsCmd(l) == l[1] = "cmd"
IsFailure(l) == l[1] \in {"Chyba Master", "Chyba User", "Chyba OCR"}
CmdLines(logs) == SelectSeq(logs, IsCmd)
FailureLines(logs) == SelectSeq(logs, IsFailure)

\* C1 (as amended): after a reconciliation a job that was not Done before
\* it is AlreadyDone exactly when its output directory exists and every
\* page has the file of every kind enabled at the reconciliation; a job
\* that was Done stays Done.  At startup and after an accepted input root
\* edit every job is freshly discovered and the equivalence holds for all.
C1_AlreadyDoneIffComplete ==
    /\ \A i \in DOMAIN jobs :
          (jobs[i].status = AlreadyDone)
             <=> OutputComplete(jobs[i], output_root, KindsNow, files, outdirs)
    /\ [][/\ ReconcileStep =>
               \A i \in DOMAIN jobs :
                  IF jobs[i].status = Done
                  THEN jobs'[i].status = Done
                  ELSE (jobs'[i].status = AlreadyDone)
                          <=> OutputComplete(jobs[i], output_root',
                                             KindsAfter, files', outdirs')
          /\ InputStep =>
               \A i \in DOMAIN jobs' :
                  (jobs'[i].status = AlreadyDone)
                     <=> OutputComplete(jobs'[i], output_root', KindsAfter,
                                        files', outdirs')]_vars

\* C1 as stated: after any reconciliation every job is AlreadyDone exactly
\* when its output is complete for the enabled kinds.
C1_AsStated ==
    [][ReconcileStep =>
          \A i \in DOMAIN jobs :
             (jobs'[i].status = AlreadyDone)
                <=> OutputComplete(jobs[i], output_root', KindsAfter,
                                   files', outdirs')]_vars

\* a toggle has just reconciled a list with a job Done in this session and
\* complete, and a job found complete on disk
C1_Witness ==
    /\ log_lines \in ToggleLines
    /\ \E i, j \in DOMAIN jobs :
          /\ jobs[i].status = Done
          /\ OutputComplete(jobs[i], output_root, KindsNow, files, outdirs)
          /\ jobs[j].status = AlreadyDone

\* the commands process_batch has to have logged: for each page in order
\* one per enabled stage
PageCmds(p, upto) ==
    LET idx == index_str(AddU32(jobs[cur].index_start, p - 1), digits)
    IN  (IF do_master /\ upto \in {"user", "ocr", "end"}
         THEN <<<<"cmd", "Grok Master", idx>>>> ELSE <<>>)
        \o (IF do_user /\ upto \in {"ocr", "end"}
            THEN <<<<"cmd", "Grok User", idx>>>> ELSE <<>>)
        \o (IF (do_txt \/ do_alto) /\ upto = "end"
            THEN <<<<"cmd", "Tesseract", idx>>>> ELSE <<>>)

RECURSIVE CmdsOfPages(_)
CmdsOfPages(n) ==
    IF n = 0 THEN <<>> ELSE CmdsOfPages(n - 1) \o PageCmds(n, "end")

\* C2: whatever failed, process_batch invokes for each listed page, in page
\* order, master, user and one OCR command, each enabled one exactly once.
C2_EveryKindOnce ==
    /\ pc = "batch" =>
          CmdLines(local_logs) = CmdsOfPages(pos - 1) \o PageCmds(pos, stage)
    /\ (cur # 0 /\ pc # "batch" /\ pos > 0) =>
          /\ pos = tiffs
          /\ CmdLines(local_logs) = CmdsOfPages(tiffs)

\* the first invocation of a batch of several pages failed and all three
\* stages of every page were still run
C2_Witness ==
    /\ pc = "returned"
    /\ tiffs >= 2
    /\ first_error = <<"Master JP2 selhalo", 1>>
    /\ Len(CmdLines(local_logs)) = 3 * tiffs

\* C3 (as amended): a run resolves Failed exactly when an invocation failed
\* or the pages could not be listed, else Done; with failed invocations the
\* reason is the first one's message, else it is the listing error.
C3_FailedIffFailure ==
    [][run_job_resolve =>
          LET fl == FailureLines(local_logs)
              st == jobs'[cur].status
          IN  /\ fl # <<>> => st = Failed(fl[1][2])
              /\ fl = <<>> =>
                    IF res = Err(<<"read_dir", jobs[cur].dir>>)
                    THEN st = Failed(<<"read_dir", jobs[cur].dir>>) /\ pos = 0
                    ELSE st = Done]_vars

\* C3 as stated: Failed exactly when an invocation failed, else Done.
C3_AsStated ==
    [][run_job_resolve =>
          LET fl == FailureLines(local_logs)
              st == jobs'[cur].status
          IN  /\ st.tag = "Failed" <=> fl # <<>>
              /\ fl # <<>> => st = Failed(fl[1][2])
              /\ fl = <<>> => st = Done]_vars

\* a run with two failed invocations resolved with the first one's message
C3_Witness ==
    /\ pc = "flush"
    /\ Len(FailureLines(local_logs)) >= 2
    /\ jobs[cur].status = Failed(FailureLines(local_logs)[1][2])
    /\ FailureLines(local_logs)[2][2] # FailureLines(local_logs)[1][2]

\* C4 as stated: a job becomes Processing only from Pending or Failed and
\* leaves Processing only to Done or Failed.
C4_Transitions ==
    [][\A i \in DOMAIN jobs \cap DOMAIN jobs' :
          /\ (jobs[i].status # Processing /\ jobs'[i].status = Processing)
                => (jobs[i].status = Pending \/ jobs[i].status.tag = "Failed")
          /\ (jobs[i].status = Processing /\ jobs'[i].status # Processing)
                => jobs'[i].status.tag \in {"Done", "Failed"}]_vars

\* C5: a reconciliation (toggle or output root change) leaves a Done job
\* Done, whatever the output tree holds and whichever kinds are enabled.
C5_DoneNeverDemoted ==
    [][ReconcileStep =>
          \A i \in DOMAIN jobs :
             jobs[i].status = Done => jobs'[i].status = Done]_vars

\* the output root was just changed and a Done job, whose output is not
\* under the new root, is still Done
C5_Witness ==
    /\ log_lines = <<<<"Output root nastaven", OutRoot2>>>>
    /\ \E i \in DOMAIN jobs :
          /\ jobs[i].status = Done
          /\ ~OutputComplete(jobs[i], output_root, KindsNow, files, outdirs)

\* C6: a reconciliation that finds one of the files it requires of an
\* AlreadyDone job missing sets the job to Pending.
C6_MissingFileDemotes ==
    [][ReconcileStep =>
          \A i \in DOMAIN jobs :
             (/\ jobs[i].status = AlreadyDone
              /\ Required(jobs[i], output_root', KindsAfter) \ files' # {})
                => jobs'[i].status = Pending]_vars

\* one file was deleted, the next key reconciled, and the job that lacks
\* exactly that one file is Pending
C6_Witness ==
    /\ keys = 1 /\ faults = 1 /\ fails = 0
    /\ log_lines = <<<<"Output root nastaven", OutRoot1>>>>
    /\ \E i \in DOMAIN jobs :
          /\ jobs[i].status = Pending
          /\ DirExists(batch_output_dir(output_root, InputRoot, jobs[i].dir))
          /\ Cardinality(Required(jobs[i], output_root, KindsNow) \ files) = 1

\* C7 (as amended): the toggle handler reconciles in the same step, against
\* the kinds enabled after the toggle: a job that is not Done and whose
\* output is complete for those kinds becomes AlreadyDone, files of other
\* kinds playing no part, a Done job stays Done, and an AlreadyDone job
\* that lacks a file of those kinds becomes Pending.  At startup every
\* complete job is AlreadyDone.
C7_JudgedAfterToggle ==
    /\ \A i \in DOMAIN jobs :
          OutputComplete(jobs[i], output_root, KindsNow, files, outdirs)
             => jobs[i].status = AlreadyDone
    /\ [][ToggleStep =>
             \A i \in DOMAIN jobs :
                LET complete == OutputComplete(jobs[i], output_root,
                                               KindsAfter, files, outdirs)
                IN  /\ (complete /\ jobs[i].status # Done)
                          => jobs'[i].status = AlreadyDone
                    /\ (complete /\ jobs[i].status = Done)
                          => jobs'[i].status = Done
                    /\ (~complete /\ jobs[i].status = AlreadyDone)
                          => jobs'[i].status = Pending]_vars

\* C7 as stated: after a toggle every job whose output is complete for the
\* kinds enabled after it reports AlreadyDone, and an AlreadyDone job that
\* lacks a file of those kinds is demoted to Pending.
C7_AsStated ==
    [][ToggleStep =>
          \A i \in DOMAIN jobs :
             LET complete == OutputComplete(jobs[i], output_root,
                                            KindsAfter, files, outdirs)
             IN  /\ complete => jobs'[i].status = AlreadyDone
                 /\ (~complete /\ jobs[i].status = AlreadyDone)
                       => jobs'[i].status = Pending]_vars

\* only the text kind is left enabled, the output of a job holds all four
\* kinds, and the job is AlreadyDone
C7_Witness ==
    /\ log_lines \in ToggleLines
    /\ KindsNow = {TXT}
    /\ \E i \in DOMAIN jobs :
          /\ jobs[i].status = AlreadyDone
          /\ FullOutput(jobs[i], output_root) \subseteq files

\* C8: in a discovered job list the first index_start is the start offset,
\* every file_count is at least 1, each next index_start is the previous
\* one plus the previous file_count, and no two index ranges overlap.
C8_ContiguousIndexes ==
    /\ jobs # <<>> => jobs[1].index_start = start_index
    /\ \A i \in DOMAIN jobs : jobs[i].file_count >= 1
    /\ \A i \in 1..(Len(jobs) - 1) :
          jobs[i + 1].index_start = jobs[i].index_start + jobs[i].file_count
    /\ \A i, j \in DOMAIN jobs :
          i # j =>
             (jobs[i].index_start..(jobs[i].index_start
                                      + jobs[i].file_count - 1))
               \cap (jobs[j].index_start..(jobs[j].index_start
                                             + jobs[j].file_count - 1)) = {}

\* a list of at least three jobs from a start offset other than the default,
\* one of them with several pages
C8_Witness ==
    /\ Len(jobs) >= 3
    /\ start_index = 7
    /\ \E i \in DOMAIN jobs : i < Len(jobs) /\ jobs[i].file_count >= 2

\* C9 as stated: over one input tree and start offset discovery returns the
\* same job list whatever order read_dir lists the subdirectories in.
C9_Deterministic ==
    \A l1, l2 \in Listings(DiscSubDirs) :
       init_jobs_from_dirs(tree, InputRoot, l1, start_index)
          = init_jobs_from_dirs(tree, InputRoot, l2, start_index)

\* the positions of run_job that follow a successful process_batch
PostStages == {"wait", "manifest", "preview", "report"}

\* C10: the manifest, preview and report stages are entered only in a run
\* whose job resolved Done, and the audit files change only in such a run:
\* a run that resolved Failed leaves the manifest and ledger as they were.
C10_OnlyDoneProceeds ==
    [][/\ pc' \in PostStages => jobs'[cur'].status = Done
       /\ audit' # audit =>
             (pc \in PostStages /\ jobs[cur].status = Done)]_vars

\* a run of a batch that has a manifest and ledger from an earlier run
\* resolved Failed on a failed invocation, and both are as they were
C10_Witness ==
    /\ pc = "flush"
    /\ jobs[cur].status.tag = "Failed"
    /\ FailureLines(local_logs) # <<>>
    /\ audit[logs_dir_of(output_root, jobs[cur].dir)]
          = PreviousAudit(jobs[cur])

\* whether a line is among the lines of a log
Logged(logs, line) == \E k \in DOMAIN logs : logs[k] = line

\* the audit directory of the running job
CurLogsDir == logs_dir_of(output_root, jobs[cur].dir)

\* C11: once the running job is Done, no later step of the run (the wait
\* and its timeout, the manifest build and write, the previews, the report,
\* the log flush) changes its status.
C11_DoneStaysDone ==
    [][(pc \in PostStages \cup {"flush"} /\ jobs[cur].status = Done)
          => jobs'[cur].status = Done]_vars

\* a run has returned whose wait timed out and whose manifest could not be
\* written, and its job is Done
C11_Witness ==
    /\ pc = "idle"
    /\ Logged(log_lines, <<"Varovani: JP2 soubory nebyly vytvoreny vcas">>)
    /\ Logged(log_lines, <<"Chyba pri zapisu manifestu/log.txt">>)
    /\ jobs[selected].status = Done

\* C12 as stated: when a run in which an invocation failed ends, the pages
\* after the failure were attempted and the batch's manifest is the one
\* this run built, with a record for exactly the files that exist.
C12_PartialFailureManifest ==
    (pc = "flush" /\ FailureLines(local_logs) # <<>>) =>
       /\ CmdLines(local_logs) = CmdsOfPages(tiffs)
       /\ manifest.built
       /\ audit[CurLogsDir].manifest = manifest
       /\ manifest.pages = manifest_pages(jobs[cur], CurOutDir, do_master,
                                          do_user, do_txt, do_alto)

\* C13 as stated: when a run in which an invocation failed ends, the
\* batch's ledger holds this run's log with its failure lines.
C13_LedgerKeepsFailures ==
    (pc = "flush" /\ FailureLines(local_logs) # <<>>) =>
       /\ audit[CurLogsDir].ledger.written
       /\ FailureLines(audit[CurLogsDir].ledger.log)
             = FailureLines(local_logs)

\* C14: the manifest a run builds has one entry per page image listed at
\* that moment, in order, with the index index_start + position, and the
\* entry records a kind exactly when the kind is enabled and its file
\* exists at that moment; a missing file is no error and the manifest
\* already on disk plays no part.
C14_ManifestFromDisk ==
    [][(build_manifest_for_batch /\ manifest'.built) =>
          LET job == jobs[cur]
              pages == manifest'.pages
          IN  /\ DOMAIN pages = 1..tree[job.dir]
              /\ \A p \in DOMAIN pages :
                    /\ pages[p].index
                          = index_str(job.index_start + (p - 1), digits)
                    /\ \A s \in Suffixes :
                          s \in pages[p].present
                             <=> /\ s \in KindsNow
                                 /\ [dir |-> CurOutDir,
                                     index |-> pages[p].index,
                                     suffix |-> s] \in files]_vars

\* a manifest was built in which an enabled kind of a page is absent
\* because its file is missing
C14_Witness ==
    /\ pc \in {"preview", "report"}
    /\ manifest.built
    /\ \E p \in DOMAIN manifest.pages :
          \E s \in KindsNow : s \notin manifest.pages[p].present

\* the expected JP2 files of the running job that are not there
MissingJp2 ==
    {f \in Required(jobs[cur], output_root,
                    Enabled(do_master, do_user, FALSE, FALSE)) :
        f \notin files}

\* C15: wait_for_jp2_files polls at most max_attempts times: a poll that
\* finds every expected file ends the wait without a warning, a poll that
\* does not is followed by the next one while fewer than max_attempts were
\* made, and the last one ends the wait with the warning.
C15_BoundedWait ==
    [][wait_for_jp2_files =>
          /\ attempt \in 1..max_attempts
          /\ MissingJp2 = {} =>
                /\ pc' = "manifest"
                /\ local_logs'[Len(local_logs')]
                      = <<"Vsechny JP2 soubory pripraveny", attempt>>
          /\ (MissingJp2 # {} /\ attempt < max_attempts) =>
                pc' = "wait" /\ attempt' = attempt + 1
          /\ (MissingJp2 # {} /\ attempt = max_attempts) =>
                /\ pc' = "manifest"
                /\ local_logs'[Len(local_logs')]
                      = <<"Varovani: JP2 soubory nebyly vytvoreny vcas">>]_vars

\* the wait ended after max_attempts polls with files still missing
C15_Witness ==
    /\ pc = "manifest"
    /\ attempt = max_attempts
    /\ MissingJp2 # {}
    /\ local_logs[Len(local_logs)]
          = <<"Varovani: JP2 soubory nebyly vytvoreny vcas">>


\* ------------------------------------------------ run-one, run-all, force
Processable(job) == job.status = Pending \/ job.status.tag = "Failed"
Finished(job) == job.status = Done \/ job.status = AlreadyDone
ProcessingJobs == {i \in DOMAIN jobs : jobs[i].status = Processing}
ForceTarget(js, hit) ==
    [i \in DOMAIN js |-> IF i \in hit /\ Finished(js[i])
                         THEN [js[i] EXCEPT !.status = Pending]
                         ELSE js[i]]
RunUnderWay == pc # "idle"

\* C16: run-one on a selected AlreadyDone job starts nothing: no tool
\* runs, the jobs and every file stay as they are, and the one line logged
\* points the operator to the force key
C16_RunOneRejected ==
    [][(process_selected /\ jobs # <<>>
            /\ jobs[selected].status = AlreadyDone)
         => /\ jobs' = jobs
            /\ UNCHANGED <<fsvars, runvars, sweep>>
            /\ pc' = "idle"
            /\ CmdLines(log_lines') = <<>>
            /\ log_lines' = <<<<"Davka je jiz zpracovana. Pouzijte F">>>>]_vars

C16_Witness ==
    /\ pc = "idle"
    /\ log_lines = <<<<"Davka je jiz zpracovana. Pouzijte F">>>>
    /\ jobs[selected].status = AlreadyDone
    /\ FullOutput(jobs[selected], output_root) \subseteq files

\* C17: the run-all sweep visits the jobs in list order, once each; the job
\* it reaches is run exactly when it is Pending or Failed at that moment,
\* any other job is passed over unchanged with no tool invoked; the sweep
\* ends with no job Pending or Processing
C17_SweepInOrder ==
    /\ [](sweep > 0 =>
            /\ sweep \in 1..(Len(jobs) + 1)
            /\ \A i \in 1..(sweep - 1) :
                  jobs[i].status # Pending /\ jobs[i].status # Processing
            /\ cur \in {0, sweep})
    /\ [][/\ (sweep > 0 /\ sweep' # sweep)
              => (sweep' = sweep + 1 \/ (sweep > Len(jobs) /\ sweep' = 0))
          /\ (process_all_pending_step /\ sweep <= Len(jobs))
              => IF Processable(jobs[sweep])
                 THEN /\ cur' = sweep
                      /\ jobs' = [jobs EXCEPT ![sweep].status = Processing]
                      /\ sweep' = sweep
                 ELSE /\ jobs' = jobs
                      /\ sweep' = sweep + 1
                      /\ pc' = "sweep"
                      /\ UNCHANGED <<fsvars, runvars>>
          /\ (process_all_pending_step /\ sweep > Len(jobs))
              => /\ pc' = "idle"
                 /\ jobs' = jobs
                 /\ \A i \in DOMAIN jobs :
                       jobs'[i].status # Pending
                       /\ jobs'[i].status # Processing]_vars

C17_Witness ==
    /\ pc = "idle"
    /\ Len(jobs) = 2
    /\ log_lines # <<>>
    /\ log_lines[Len(log_lines)] = <<"Hromadne zpracovani dokonceno">>
    /\ jobs[1].status.tag = "Failed"
    /\ jobs[2].status = Done

\* C18: force-one sets the selected job to Pending when it is Done or
\* AlreadyDone, force-all does so for every such job; no other job
\* changes, a Pending or Failed job stays as it is, reason included, and
\* nothing is started or queued
C18_ForceOnlyFinished ==
    [][/\ force_rerun_selected
            => /\ jobs' = ForceTarget(jobs, {selected})
               /\ UNCHANGED <<pc, sweep, cur>>
       /\ force_rerun_all
            => /\ jobs' = ForceTarget(jobs, DOMAIN jobs)
               /\ UNCHANGED <<pc, sweep, cur>>]_vars

C18_Witness ==
    /\ pc = "idle"
    /\ Len(log_lines) = 1
    /\ log_lines[1][1] = "nastaveno na Pending"
    /\ log_lines[1][2] = 1
    /\ \E i, j \in DOMAIN jobs :
          jobs[i].status.tag = "Failed" /\ jobs[j].status = Pending

\* C19: a force step leaves the page images, the output files, the output
\* directories, the manifests and the ledgers as they are and starts no
\* tool; only the job statuses and the log change
C19_ForceTouchesNoFile ==
    [][(force_rerun_selected \/ force_rerun_all)
         => /\ UNCHANGED <<tree, files, late, outdirs, audit>>
            /\ UNCHANGED <<cfgvars, selected, runvars, pc, sweep>>
            /\ CmdLines(log_lines') = <<>>]_vars

C19_Witness ==
    /\ pc = "idle"
    /\ log_lines = <<<<"nastavena na Pending", selected>>>>
    /\ jobs[selected].status = Pending
    /\ FullOutput(jobs[selected], output_root) \subseteq files
    /\ audit[logs_dir_of(output_root, jobs[selected].dir)].manifest.built

\* C20: at most one job is Processing, and only the one run_job is working
\* on; while a run is under way no key event is handled, so the flags, the
\* output root, the selection and the list of jobs stay as they are and
\* only the job being run changes status
C20_SingleRun ==
    /\ [](/\ Cardinality(ProcessingJobs) <= 1
          /\ ProcessingJobs # {} => (RunUnderWay /\ ProcessingJobs = {cur})
          /\ cur # 0 => RunUnderWay)
    /\ [][RunUnderWay
            => /\ keys' = keys
               /\ UNCHANGED <<cfgvars, selected>>
               /\ Len(jobs') = Len(jobs)
               /\ \A i \in DOMAIN jobs :
                     /\ jobs'[i].dir = jobs[i].dir
                     /\ jobs'[i].index_start = jobs[i].index_start
                     /\ jobs'[i].status # jobs[i].status
                          => i = cur' \/ i = cur]_vars

C20_Witness ==
    /\ pc = "batch"
    /\ sweep = 2
    /\ ProcessingJobs = {2}
    /\ jobs[1].status = Done
    /\ CmdLines(local_logs) # <<>>


\* ------------------------------------------------------------ the digest
LowerHex == {HexDigits[k] : k \in DOMAIN HexDigits}
BothHashed == \A f \in HashFiles : digest[f] # None

\* C21: the digest is a string of lowercase hex digits determined by the
\* bytes of the file alone: two calls return the same digest when the
\* files hold the same bytes, however the reads were cut, and different
\* digests when one byte differs
C21_DigestOfBytes ==
    BothHashed =>
        /\ \A f \in HashFiles :
              /\ digest[f] # <<>>
              /\ \A k \in DOMAIN digest[f] : digest[f][k] \in LowerHex
        /\ content[1] = content[2] => digest[1] = digest[2]
        /\ content[2] \in OneByteChanged(content[1]) => digest[1] # digest[2]

C21_Witness ==
    /\ BothHashed
    /\ content[1] = content[2]
    /\ Len(chunks[1]) = 1
    /\ Len(chunks[2]) > 1
    /\ digest[1] = digest[2]

\* ------------------------------------------------- force, then other keys
\* the selected job has just been forced to Pending by force_rerun_selected
JustForced ==
    /\ jobs # <<>>
    /\ log_lines = <<<<"nastavena na Pending", selected>>>>
    /\ jobs[selected].status = Pending

\* C22: a job forced to Pending is still Pending after a key that does not
\* run it: a toggle, an edit of the output root, a move of the selection
C22_ForcedStaysPending ==
    [][(JustForced /\ (ToggleStep \/ apply_edit_output \/ next_job))
          => jobs'[selected].status = Pending]_vars

\* ------------------------------------------------- discovery that fails
\* C23: discovery returns an error exactly when the input root cannot be
\* listed, be it unreadable or no directory at all; a listed subdirectory
\* that cannot be read does not make it fail
C23_FailsOnlyOnRoot ==
    \A in \in DiscoveryInputs :
       LET r == init_jobs_from_dirs_result(tree, InputRoot, in.listing,
                   start_index, in.root_state, in.unreadable)
       IN  ~r.ok <=> in.root_state # "listable"

\* ------------------------------------------------ a manifest that fails
ManifestFailed ==
    build_manifest_for_batch /\ ~manifest'.built
FailureCause == local_logs'[Len(local_logs')][2]

\* C24 (as amended): build_manifest_for_batch fails only on an IO error,
\* which may be the creation of the audit directory, the listing of the
\* page images or the reading of a file that is there, never for want of
\* an output file; the failure leaves the manifest, ledger, previews and
\* report of the batch as they were, the job stays Done, and a sweep goes
\* on with the next job
C24_BuildFailureIsLocal ==
    [][/\ ManifestFailed
            => /\ faults' = faults + 1
               /\ local_logs'[Len(local_logs')][1]
                     = "Chyba pri generovani manifestu"
               /\ FailureCause \in BuildErrors
               /\ \A d \in LogDirs :
                     /\ audit'[d].manifest = audit[d].manifest
                     /\ audit'[d].ledger = audit[d].ledger
                     /\ audit'[d].previews = audit[d].previews
                     /\ audit'[d].report = audit[d].report
               /\ jobs[cur].status = Done
               /\ jobs' = jobs
               /\ pc' = "flush"
               /\ sweep' = sweep
       /\ (run_job_end /\ sweep > 0)
            => /\ pc' = "sweep"
               /\ sweep' = sweep + 1
               /\ jobs' = jobs]_vars

\* C24 as stated: the only failure of the manifest build is an error while
\* reading a file that exists
C24_AsStated ==
    [][ManifestFailed => FailureCause = "read_err"]_vars

\* a sweep over two jobs is over: the manifest of the first failed, it is
\* Done and has no manifest or ledger, and the second was run after it
C24_Witness ==
    /\ pc = "idle"
    /\ Len(jobs) = 2
    /\ \E c \in BuildErrors :
          Logged(log_lines, <<"Chyba pri generovani manifestu", c>>)
    /\ log_lines[Len(log_lines)] = <<"Hromadne zpracovani dokonceno">>
    /\ jobs[1].status = Done
    /\ jobs[2].status = Done
    /\ ~audit[logs_dir_of(output_root, jobs[1].dir)].manifest.built
    /\ ~audit[logs_dir_of(output_root, jobs[1].dir)].ledger.written
    /\ audit[logs_dir_of(output_root, jobs[2].dir)].manifest.built

\* ------------------------------------------------- the stages of one run
\* the stage of run_job that pushes a line to local_logs
StageRank(l) ==
    CASE l[1] = "=== Davka" -> 0
      [] l[1] \in {"Davka OK", "Cekam na dokonceni zapisu souboru",
                   "Davka FAILED"} -> 2
      [] l[1] \in {"Vsechny JP2 soubory pripraveny", "Cekam na JP2 soubory",
                   "Varovani: JP2 soubory nebyly vytvoreny vcas"} -> 3
      [] l[1] \in {"Manifest a log.txt vytvoreny",
                   "Chyba pri zapisu manifestu/log.txt",
                   "Chyba pri generovani manifestu"} -> 4
      [] l[1] \in {"Generuji WebP nahledy",
                   "Zadne JP2 soubory pro WebP konverzi",
                   "WEBP nahledy vygenerovany",
                   "Chyba pri generovani WEBP nahledu"} -> 5
      [] l[1] \in {"HTML report vytvoren",
                   "Chyba pri tvorbe HTML reportu"} -> 6
      [] OTHER -> 1
LoggedStage(rank) ==
    \E k \in DOMAIN local_logs : StageRank(local_logs[k]) = rank
WaitOver ==
    \E k \in DOMAIN local_logs :
       local_logs[k][1] \in {"Vsechny JP2 soubory pripraveny",
                             "Varovani: JP2 soubory nebyly vytvoreny vcas"}

\* C25 (as amended): in a run whose batch succeeded every tool invocation
\* comes first, then the job is set Done, then come the wait for the JP2
\* files (when a JP2 kind is enabled), the manifest, the previews (when a
\* JP2 file is recorded) and the report, in this order; the job is Done
\* throughout the later stages
C25_StagesInOrder ==
    cur # 0 =>
        /\ \A i, j \in DOMAIN local_logs :
              i < j => StageRank(local_logs[i]) <= StageRank(local_logs[j])
        /\ pc = "batch" =>
              /\ jobs[cur].status = Processing
              /\ \A k \in DOMAIN local_logs : StageRank(local_logs[k]) <= 1
        /\ pc \in PostStages =>
              /\ jobs[cur].status = Done
              /\ CmdLines(local_logs) = CmdsOfPages(tiffs)
        /\ pc = "wait" => ~LoggedStage(4) /\ ~manifest.built
        /\ (pc \in {"manifest", "preview", "report"}
              /\ (do_master \/ do_user)) => WaitOver
        /\ pc = "manifest" => ~manifest.built /\ ~LoggedStage(4)
        /\ pc \in {"preview", "report"} => manifest.built /\ ~LoggedStage(6)
        /\ pc = "preview" =>
              \A k \in DOMAIN local_logs :
                 local_logs[k][1] \notin {"WEBP nahledy vygenerovany",
                                          "Chyba pri generovani WEBP nahledu"}
        /\ (pc = "report" /\ has_jp2_files(manifest.pages)) =>
              \E k \in DOMAIN local_logs :
                 local_logs[k][1] \in {"WEBP nahledy vygenerovany",
                                       "Chyba pri generovani WEBP nahledu"}

\* C25 as stated: the status of the job becomes terminal only after the
\* report, so that it is still Processing in the stages before
C25_AsStated ==
    (cur # 0 /\ pc \in PostStages) => jobs[cur].status = Processing

\* a run at its end, with all four later stages done and the job Done
C25_Witness ==
    /\ pc = "flush"
    /\ jobs[cur].status = Done
    /\ CmdLines(local_logs) # <<>>
    /\ Logged(local_logs, <<"Vsechny JP2 soubory pripraveny", 1>>)
    /\ Logged(local_logs, <<"Manifest a log.txt vytvoreny">>)
    /\ Logged(local_logs, <<"WEBP nahledy vygenerovany">>)
    /\ Logged(local_logs, <<"HTML report vytvoren">>)

\* ------------------------------------------------- the audit directories
\* C26: in a discovered job list no two jobs have the same audit directory,
\* and the audit directory of a job is not the output directory of another
C26_DedicatedAuditDir ==
    \A i, j \in DOMAIN jobs :
       i # j =>
          /\ logs_dir_of(output_root, jobs[i].dir)
                # logs_dir_of(output_root, jobs[j].dir)
          /\ logs_dir_of(output_root, jobs[i].dir)
                # batch_output_dir(output_root, InputRoot, jobs[j].dir)

\* ----------------------------------------------------- the input root edit
InputRejected ==
    apply_edit_input /\ log_lines' = <<<<"Input root neexistuje">>>>
InputAccepted ==
    apply_edit_input /\ log_lines'[1] = <<"Input root nastaven", InputRoot>>
DiscoveryFailed ==
    Len(log_lines') = 2 /\ log_lines'[2][1] = "Chyba pri nacitani davek"

\* C27: an accepted edit of the input root replaces the job list by what
\* discovery finds now, indexed from the start offset, each job Pending or,
\* when its output is complete for the enabled kinds, AlreadyDone, whatever
\* the status of the job of that directory was (a discovery that fails
\* leaves no job); a rejected edit leaves the job list as it was
C27_ListReplaced ==
    [][/\ InputRejected => jobs' = jobs /\ selected' = selected
       /\ (InputAccepted /\ DiscoveryFailed) => jobs' = <<>>
       /\ (InputAccepted /\ ~DiscoveryFailed) =>
             /\ \A d \in {InputRoot, SubDir} :
                   tree[d] > 0 <=> \E i \in DOMAIN jobs' : jobs'[i].dir = d
             /\ jobs' # <<>> => jobs'[1].index_start = start_index
             /\ \A i \in DOMAIN jobs' :
                   /\ jobs'[i].file_count = tree[jobs'[i].dir]
                   /\ i > 1 => jobs'[i].index_start =
                         jobs'[i - 1].index_start + jobs'[i - 1].file_count
                   /\ jobs'[i].status =
                         IF OutputComplete(jobs'[i], output_root, KindsNow,
                                           files, outdirs)
                         THEN AlreadyDone ELSE Pending]_vars

\* the input root has been accepted after a run in which a job failed, and
\* the jobs are Pending or AlreadyDone
C27_Witness ==
    /\ log_lines = <<<<"Input root nastaven", InputRoot>>>>
    /\ fails >= 1
    /\ jobs # <<>>
    /\ \A i \in DOMAIN jobs : jobs[i].status \in {Pending, AlreadyDone}

\* ------------------------------------------------------------- resuming
\* what a run of the job that resolves Done leaves when every invocation
\* wrote its file: the files of all its pages, in its output directory
ProducedBy(job) == Required(job, output_root, Suffixes)
MadeBy(job) ==
    {output_root, batch_output_dir(output_root, InputRoot, job.dir)}

\* C28: over one input tree and start offset, the job of a directory found
\* by a later discovery is complete on the files a run of the job of that
\* directory found by an earlier discovery has produced, so that it is
\* classified AlreadyDone and no sweep runs it
C28_ResumeIdempotent ==
    \A l1, l2 \in Listings(DiscSubDirs) :
       LET before == init_jobs_from_dirs(tree, InputRoot, l1, start_index)
           again == init_jobs_from_dirs(tree, InputRoot, l2, start_index)
       IN  \A i \in DOMAIN before :
              \E k \in DOMAIN again :
                 /\ again[k].dir = before[i].dir
                 /\ OutputComplete(again[k], output_root, Suffixes,
                                   ProducedBy(before[i]), MadeBy(before[i]))

\* ------------------------------------- what reconciliation does to a job
\* the output of job i is complete for the kinds, the output root and the
\* files the reconciliation of this step looks at
CompleteAfter(i) ==
    OutputComplete(jobs[i], output_root', KindsAfter, files', outdirs')

\* C29: a reconciliation changes nothing of a job but its status, and the
\* status only in two ways: a job that is not Done and whose output is
\* complete becomes AlreadyDone, a Failed one losing its reason, and an
\* AlreadyDone job whose output is incomplete becomes Pending; a Done job
\* and a Pending or Failed job with incomplete output stay as they are
C29_TwoStatusChanges ==
    [][ReconcileStep =>
          /\ DOMAIN jobs' = DOMAIN jobs
          /\ \A i \in DOMAIN jobs :
                /\ jobs'[i] = [jobs[i] EXCEPT !.status = jobs'[i].status]
                /\ jobs'[i].status \notin {Processing, Done}
                      \/ jobs'[i].status = jobs[i].status
                /\ jobs'[i].status.tag = "Failed"
                      => jobs'[i].status = jobs[i].status
                /\ (jobs[i].status # Done /\ CompleteAfter(i))
                      => jobs'[i].status = AlreadyDone
                /\ (jobs[i].status = AlreadyDone /\ ~CompleteAfter(i))
                      => jobs'[i].status = Pending
                /\ jobs[i].status = Done => jobs'[i].status = Done
                /\ (jobs[i].status # AlreadyDone /\ ~CompleteAfter(i))
                      => jobs'[i] = jobs[i]]_vars

\* the one failure of the one run has been followed by a toggle, and no
\* job is Failed any more
C29_Witness ==
    /\ log_lines \in ToggleLines
    /\ keys = 2
    /\ fails = 1
    /\ jobs # <<>>
    /\ \A i \in DOMAIN jobs : jobs[i].status.tag # "Failed"
    /\ \E i \in DOMAIN jobs : jobs[i].status = AlreadyDone

\* --------------------------------------------------- nothing to produce
OutDirAfter(i) ==
    batch_output_dir(output_root', InputRoot, jobs[i].dir) \in outdirs'
NothingDone ==
    \/ Logged(local_logs, <<"Nic neni zapnuto">>)
    \/ Logged(local_logs, <<"Davka neobsahuje TIFF">>)

\* C30 (as amended): with the four kinds off a reconciliation makes every
\* job that is not Done and whose output directory exists AlreadyDone, the
\* root batch among them, and leaves a Done job Done; a run with the four
\* kinds off, and a run of a batch without page images, invokes no tool
\* and resolves Done, unless the batch directory cannot be listed
C30_NothingRequired ==
    /\ [][(ReconcileStep /\ KindsAfter = {}) =>
             \A i \in DOMAIN jobs :
                /\ jobs[i].dir = InputRoot => OutDirAfter(i)
                /\ (OutDirAfter(i) /\ jobs[i].status # Done)
                      => jobs'[i].status = AlreadyDone
                /\ jobs[i].status = Done => jobs'[i].status = Done
                /\ (~OutDirAfter(i) /\ jobs[i].status # Done)
                      => jobs'[i].status \notin {AlreadyDone, Done}]_vars
    /\ []((cur # 0 /\ (KindsNow = {} \/ tiffs = 0)) =>
             /\ pc # "batch"
             /\ CmdLines(local_logs) = <<>>
             /\ res.ok => NothingDone
             /\ (res.ok /\ pc # "returned") => jobs[cur].status = Done
             /\ ~res.ok => res.err[1] = "read_dir")

\* C30 as stated: with the four kinds off a reconciliation makes every job
\* whose output directory exists AlreadyDone
C30_AsStated ==
    [][(ReconcileStep /\ KindsAfter = {}) =>
          \A i \in DOMAIN jobs :
             OutDirAfter(i) => jobs'[i].status = AlreadyDone]_vars

\* with the four kinds off a job was run and is Done, the output root has
\* been typed again, and the root batch is AlreadyDone
C30_Witness ==
    /\ KindsNow = {}
    /\ pc = "idle"
    /\ keys >= 2
    /\ Len(log_lines) = 1
    /\ log_lines[1][1] = "Output root nastaven"
    /\ \E i, j \in DOMAIN jobs :
          /\ jobs[i].status = Done
          /\ jobs[j].status = AlreadyDone /\ jobs[j].dir = InputRoot

====
